---------------------------- MODULE Spec2Model ----------------------------
(***************************************************************************)
(* JWT verification against a JWKS (crates/logline-auth/src/jwt.rs).       *)
(*                                                                         *)
(* A call of JwtVerifier::verify_with_source is a small process: it        *)
(* decodes the header and applies the gates, resolves the key set          *)
(* (load_jwks, with the process-wide JWKS_CACHE and the HTTP fetch), and   *)
(* runs verify_against_jwks, whose candidate loop is stepped one candidate *)
(* at a time.  Key ids, URLs and algorithm names are TLA+ strings; the     *)
(* issuer and audience strings are sequences of characters.                *)
(***************************************************************************)
EXTENDS Integers, Sequences, FiniteSets, TLC

\* ------------------------------------------------------------------ bounds

\* Longest key set drawn as an input.
MaxKeys == 3

\* The clock (seconds since the epoch) starts at StartTime and runs for
\* TimeSpan seconds.
StartTime == 2
TimeSpan == 1
MaxTime == StartTime + TimeSpan

\* The clock of the runs that exercise the JWKS cache runs for CacheSpan
\* seconds.
CacheSpan == 2

\* Longest byte string an OKP x decodes to, among the JWKs handed to the key
\* decoder alone.
MaxXLen == 33

\* ------------------------------------------------------------ option types

\* Option<String> / Option<i64>: None and Some(v).
NoneS == [some |-> FALSE, v |-> ""]
SomeS(s) == [some |-> TRUE, v |-> s]
NoneI == [some |-> FALSE, v |-> 0]
SomeI(n) == [some |-> TRUE, v |-> n]

RECURSIVE SeqsUpTo(_, _)
\* All sequences over S of length at most n.
SeqsUpTo(S, n) ==
    IF n = 0 THEN {<<>>}
    ELSE LET shorter == SeqsUpTo(S, n - 1)
         IN  shorter \cup {Append(s, x) : s \in {t \in shorter : Len(t) = n - 1}, x \in S}

\* -------------------------------------------------------------- JSON values

\* serde_json::Value as far as the code looks at it: a string, an array of
\* strings and other values, any other type, or no value at all.
JAbsent == [t |-> "absent", s |-> <<>>, a |-> <<>>]
JStr(s) == [t |-> "str", s |-> s, a |-> <<>>]
JNum == [t |-> "num", s |-> <<>>, a |-> <<>>]
JArr(a) == [t |-> "arr", s |-> <<>>, a |-> a]

\* Value::as_str
as_str(v) == IF v.t = "str" THEN [some |-> TRUE, v |-> v.s] ELSE [some |-> FALSE, v |-> <<>>]

\* ----------------------------------------------------------------- strings

IssSlash == <<"i", "s", "s", "/">>
IssBare == <<"i", "s", "s">>
AudApi == <<"a", "p", "i">>
AudOther == <<"o", "t", "h">>

\* ------------------------------------------------------------------- keys

\* A Jwk (struct Jwk).  n, x: the key material the field holds ("A", "B":
\* the public key of key pair A, B; "!": not base64url).  xlen: the number of
\* bytes x decodes to.
Jwk(kty, kid, n, e, crv, x, y, xlen) ==
    [kty |-> kty, kid |-> kid, n |-> n, e |-> e, crv |-> crv, x |-> x, y |-> y, xlen |-> xlen]

RsaKey(kid, mat) == Jwk("RSA", kid, SomeS(mat), SomeS("AQAB"), NoneS, NoneS, NoneS, 0)
OkpKey(kid, mat, len) == Jwk("OKP", kid, NoneS, NoneS, SomeS("Ed25519"), SomeS(mat), NoneS, len)

K1A == RsaKey(SomeS("k1"), "A")
K2B == RsaKey(SomeS("k2"), "B")
\* RSA key without modulus: decoding fails.
K1NoN == Jwk("RSA", SomeS("k1"), NoneS, SomeS("AQAB"), NoneS, NoneS, NoneS, 0)
\* Ed25519 key without kid.
KEdB == OkpKey(NoneS, "B", 32)
\* Ed25519 key whose x decodes to 16 bytes.
K2Short == OkpKey(SomeS("k2"), "B", 16)

\* Algorithm family of a jsonwebtoken::Algorithm.
AlgFamily(alg) ==
    CASE alg = "RS256" -> "RSA"
      [] alg = "ES256" -> "EC"
      [] alg = "EdDSA" -> "ED"
      [] OTHER -> "HMAC"

\* ed25519_spki_der: pubkey32[..32] panics on fewer than 32 bytes and keeps the
\* first 32 bytes otherwise.
ed25519_spki_der_panics(len) == len < 32

\* let mut alg_id: Vec<u8> = vec![0x30, 0x05, 0x06, 0x03, 0x2B, 0x65, 0x70]
AlgId == <<48, 5, 6, 3, 43, 101, 112>>

\* let mut bit_string: Vec<u8> = vec![0x03, 0x21, 0x00]
BitStringHeader == <<3, 33, 0>>

\* ed25519_spki_der with the key bytes in reverse order.
ed25519_spki_der_reversed(pubkey32) ==
    LET bit_string == BitStringHeader \o [i \in 1..32 |-> pubkey32[33 - i]]
        len == Len(AlgId) + Len(bit_string)
    IN  <<48, len % 256>> \o AlgId \o bit_string

\* ed25519_spki_der on 32 bytes or more: [0x30, len as u8], alg_id, bit_string
\* extended by pubkey32[..32].
ed25519_spki_der(pubkey32) ==
    LET bit_string == BitStringHeader \o SubSeq(pubkey32, 1, 32)
        len == Len(AlgId) + Len(bit_string)
    IN  <<48, len % 256>> \o AlgId \o bit_string

\* Err(Error::Jwks(msg)).
KeyErr(msg) ==
    [out |-> "err", kind |-> "Jwks", family |-> "", mat |-> "", msg |-> msg]

\* Err(Error::Jwt(e)): the error of from_rsa_components or from_ec_components
\* converted by the ? operator.
KeyErrJwt(msg) ==
    [out |-> "err", kind |-> "Jwt", family |-> "", mat |-> "", msg |-> msg]

KeyOk(family, mat) ==
    [out |-> "ok", kind |-> "", family |-> family, mat |-> mat, msg |-> ""]

KeyPanic ==
    [out |-> "panic", kind |-> "", family |-> "", mat |-> "", msg |-> "slice index"]

\* decoding_key_from_jwk taking an absent crv of an OKP key for Ed25519.
decoding_key_from_jwk_crv_defaulted(jwk) ==
    CASE jwk.kty = "RSA" ->
           IF ~jwk.n.some THEN KeyErr("RSA JWK missing n")
           ELSE IF ~jwk.e.some THEN KeyErr("RSA JWK missing e")
           ELSE IF jwk.n.v = "!" \/ jwk.e.v = "!" THEN KeyErrJwt("base64")
           ELSE KeyOk("RSA", jwk.n.v)
      [] jwk.kty = "EC" ->
           IF ~jwk.x.some THEN KeyErr("EC JWK missing x")
           ELSE IF ~jwk.y.some THEN KeyErr("EC JWK missing y")
           ELSE IF jwk.x.v = "!" \/ jwk.y.v = "!" THEN KeyErrJwt("base64")
           ELSE KeyOk("EC", jwk.x.v)
      [] jwk.kty = "OKP" ->
           IF (IF jwk.crv.some THEN jwk.crv.v ELSE "Ed25519") # "Ed25519"
             THEN KeyErr("unsupported OKP curve")
           ELSE IF ~jwk.x.some THEN KeyErr("OKP JWK missing x")
           ELSE IF jwk.x.v = "!" THEN KeyErr("invalid okp x")
           ELSE IF ed25519_spki_der_panics(jwk.xlen) THEN KeyPanic
           ELSE KeyOk("ED", jwk.x.v)
      [] OTHER -> KeyErr("unsupported kty")

\* decoding_key_from_jwk: a key handle, an error, or a panic.
decoding_key_from_jwk(jwk) ==
    CASE jwk.kty = "RSA" ->
           IF ~jwk.n.some THEN KeyErr("RSA JWK missing n")
           ELSE IF ~jwk.e.some THEN KeyErr("RSA JWK missing e")
           ELSE IF jwk.n.v = "!" \/ jwk.e.v = "!" THEN KeyErrJwt("base64")
           ELSE KeyOk("RSA", jwk.n.v)
      [] jwk.kty = "EC" ->
           IF ~jwk.x.some THEN KeyErr("EC JWK missing x")
           ELSE IF ~jwk.y.some THEN KeyErr("EC JWK missing y")
           ELSE IF jwk.x.v = "!" \/ jwk.y.v = "!" THEN KeyErrJwt("base64")
           ELSE KeyOk("EC", jwk.x.v)
      [] jwk.kty = "OKP" ->
           IF (IF jwk.crv.some THEN jwk.crv.v ELSE "") # "Ed25519"
             THEN KeyErr("unsupported OKP curve")
           ELSE IF ~jwk.x.some THEN KeyErr("OKP JWK missing x")
           ELSE IF jwk.x.v = "!" THEN KeyErr("invalid okp x")
           ELSE IF ed25519_spki_der_panics(jwk.xlen) THEN KeyPanic
           ELSE KeyOk("ED", jwk.x.v)
      [] OTHER -> KeyErr("unsupported kty")


\* ----------------------------------------------------------------- tokens

\* Option<String> for strings held as character sequences.
NoneQ == [some |-> FALSE, v |-> <<>>]
SomeQ(s) == [some |-> TRUE, v |-> s]

\* A compact JWT: whether its header decodes, the header's alg and kid, the
\* key pair that made the signature, and the claims the code reads.
Token(wf, alg, kid, signer, exp, nbf, iss, aud) ==
    [wf |-> wf, alg |-> alg, kid |-> kid, signer |-> signer,
     exp |-> exp, nbf |-> nbf, iss |-> iss, aud |-> aud]

\* A token whose header does not decode.
Malformed == Token(FALSE, "", NoneS, "", NoneI, NoneI, JAbsent, JAbsent)

NoHeader == [alg |-> "", kid |-> NoneS]

\* jsonwebtoken::decode_header
decode_header(token) ==
    IF token.wf THEN [ok |-> TRUE, header |-> [alg |-> token.alg, kid |-> token.kid]]
    ELSE [ok |-> FALSE, header |-> NoHeader]

\* VerifyOptions
Options(jwks_url, issuer, audience, allowed, leeway, maxage, reqkid) ==
    [jwks_url |-> jwks_url, issuer |-> issuer, audience |-> audience,
     allowed_algs |-> allowed, leeway_seconds |-> leeway,
     max_jwks_age_seconds |-> maxage, require_kid |-> reqkid]

\* VerifyOptions::default().allowed_algs
DefaultAlgs == {"RS256", "ES256", "EdDSA"}

\* ------------------------------------------------- jsonwebtoken::decode

\* exp < now - leeway: the token has expired.
Expired(token, leeway, t) == token.exp.some /\ token.exp.v < t - leeway

\* nbf > now + leeway: the token is not valid yet.
Immature(token, leeway, t) == token.nbf.some /\ token.nbf.v > t + leeway

\* LibDecode with validate_exp left off: exp must be there but is not compared.
LibDecodeNoExpiry(token, key, leeway, t) ==
    IF key.family # AlgFamily(token.alg) THEN "InvalidAlgorithm"
    ELSE IF key.mat # token.signer THEN "InvalidSignature"
    ELSE IF ~token.exp.some THEN "MissingRequiredClaim"
    ELSE IF Immature(token, leeway, t) THEN "ImmatureSignature"
    ELSE "Ok"

\* jsonwebtoken::decode::<Value>(token, &key, &validation) with the Validation
\* verify_against_jwks builds: the algorithm of the header, the key's family
\* against it, the signature, then exp (required) and nbf with leeway; aud is
\* not validated.  "Ok" or the error kind.
LibDecode(token, key, leeway, t) ==
    IF key.family # AlgFamily(token.alg) THEN "InvalidAlgorithm"
    ELSE IF key.mat # token.signer THEN "InvalidSignature"
    ELSE IF ~token.exp.some THEN "MissingRequiredClaim"
    ELSE IF Expired(token, leeway, t) THEN "ExpiredSignature"
    ELSE IF Immature(token, leeway, t) THEN "ImmatureSignature"
    ELSE "Ok"

\* ------------------------------------------------ validate_issuer_audience

\* s without one trailing slash.
TrimSlash(s) == IF Len(s) > 0 /\ s[Len(s)] = "/" THEN SubSeq(s, 1, Len(s) - 1) ELSE s

\* IssuerCheck comparing the issuers with their trailing slash removed.
IssuerCheckTrimmed(claims, opts) ==
    IF ~opts.issuer.some THEN ""
    ELSE IF ~as_str(claims.iss).some THEN "missing iss"
    ELSE IF TrimSlash(as_str(claims.iss).v) # TrimSlash(opts.issuer.v) THEN "issuer mismatch"
    ELSE ""

\* The issuer half: "" when it passes, the error message otherwise.
IssuerCheck(claims, opts) ==
    IF ~opts.issuer.some THEN ""
    ELSE IF ~as_str(claims.iss).some THEN "missing iss"
    ELSE IF as_str(claims.iss).v # opts.issuer.v THEN "issuer mismatch"
    ELSE ""

\* AudienceCheck looking only at the first element of an array.
AudienceCheckFirstOnly(claims, opts) ==
    IF ~opts.audience.some THEN ""
    ELSE IF claims.aud.t = "absent" THEN "missing aud"
    ELSE LET aud == claims.aud
             ok == CASE aud.t = "str" -> aud.s = opts.audience.v
                     [] aud.t = "arr" ->
                          /\ Len(aud.a) > 0
                          /\ as_str(aud.a[1]).some
                          /\ as_str(aud.a[1]).v = opts.audience.v
                     [] OTHER -> FALSE
         IN  IF ok THEN "" ELSE "audience mismatch"

\* The audience half.
AudienceCheck(claims, opts) ==
    IF ~opts.audience.some THEN ""
    ELSE IF claims.aud.t = "absent" THEN "missing aud"
    ELSE LET aud == claims.aud
             ok == CASE aud.t = "str" -> aud.s = opts.audience.v
                     [] aud.t = "arr" ->
                          \E i \in 1..Len(aud.a) :
                              /\ as_str(aud.a[i]).some
                              /\ as_str(aud.a[i]).v = opts.audience.v
                     [] OTHER -> FALSE
         IN  IF ok THEN "" ELSE "audience mismatch"

\* validate_issuer_audience: the issuer is checked first.
validate_issuer_audience(claims, opts) ==
    IF IssuerCheck(claims, opts) # "" THEN IssuerCheck(claims, opts)
    ELSE AudienceCheck(claims, opts)

\* ------------------------------------------------------ candidate selection

\* k.kid.as_deref() == Some(kid)
KidMatches(jwk, kid) == jwk.kid.some /\ jwk.kid.v = kid

\* The positions in the key set of the keys whose kid is the header's.
KidMatchIdx(header, keys) ==
    IF ~header.kid.some THEN <<>>
    ELSE LET Test(i) == KidMatches(keys[i], header.kid.v)
         IN  SelectSeq([i \in 1..Len(keys) |-> i], Test)

\* Candidates without the preference for the kid: always every key.
CandidatesAll(header, keys) == [i \in 1..Len(keys) |-> i]

\* Candidates without the fallback: only the kid matches.
CandidatesNoFallback(header, keys) == KidMatchIdx(header, keys)

\* The candidates of verify_against_jwks, as positions in the key set: the
\* kid matches, or every key when there is none.
Candidates(header, keys) ==
    IF KidMatchIdx(header, keys) = <<>> THEN [i \in 1..Len(keys) |-> i]
    ELSE KidMatchIdx(header, keys)

\* ------------------------------------------------------- sources, documents

\* A JWKS document as it arrives (JwksSource::Json, or the body of a fetch):
\* whether it is JSON with a "keys" array at all, and the key objects, whose
\* "kty" may be missing.
Doc(wf, keys) == [wf |-> wf, keys |-> keys]

\* The JSON object of a Jwk.
ToJson(jwk) == [jwk EXCEPT !.kty = SomeS(jwk.kty)]

\* ... and the same object without "kty".
ToJsonNoKty(jwk) == [jwk EXCEPT !.kty = NoneS]

DocOf(keys) == Doc(TRUE, [i \in 1..Len(keys) |-> ToJson(keys[i])])
Garbage == Doc(FALSE, <<>>)

\* serde_json::from_str::<JwksSet>: kty is the one required field of a key.
ParseJwks(doc) ==
    IF ~doc.wf \/ \E i \in 1..Len(doc.keys) : ~doc.keys[i].kty.some
    THEN [ok |-> FALSE, keys |-> <<>>]
    ELSE [ok |-> TRUE,
          keys |-> [i \in 1..Len(doc.keys) |-> [doc.keys[i] EXCEPT !.kty = doc.keys[i].kty.v]]]

\* JwksSource
SrcUrl(u) == [kind |-> "Url", url |-> u, doc |-> Garbage, set |-> <<>>]
SrcJson(d) == [kind |-> "Json", url |-> "", doc |-> d, set |-> <<>>]
SrcSet(ks) == [kind |-> "Set", url |-> "", doc |-> Garbage, set |-> ks]

\* What a GET returns: a transport outcome ("ok"; "error" and "timeout": send
\* fails; "reset": the body cannot be read), the status, the Cache-Control
\* header (None when there is none or when it is not visible ASCII) and the
\* body.
Response(net, status, cache_control, body) ==
    [net |-> net, status |-> status, cache_control |-> cache_control, body |-> body]

\* ---------------------------------------------- parse_cache_control_max_age

Digits == <<"0", "1", "2", "3", "4", "5", "6", "7", "8", "9">>
IsDigit(ch) == \E d \in 1..10 : Digits[d] = ch
DigitValue(ch) == (CHOOSE d \in 1..10 : Digits[d] = ch) - 1

\* char::is_whitespace on the characters a header value can hold.
IsSpace(ch) == ch \in {" ", "\t"}

RECURSIVE TrimStart(_)
TrimStart(s) == IF s # <<>> /\ IsSpace(Head(s)) THEN TrimStart(Tail(s)) ELSE s

RECURSIVE TrimEnd(_)
TrimEnd(s) ==
    IF s # <<>> /\ IsSpace(s[Len(s)]) THEN TrimEnd(SubSeq(s, 1, Len(s) - 1)) ELSE s

\* str::trim
Trim(s) == TrimEnd(TrimStart(s))

RECURSIVE Split(_, _)
\* str::split(sep): the pieces between the separators, at least one.
Split(s, sep) ==
    IF \A i \in 1..Len(s) : s[i] # sep THEN <<s>>
    ELSE LET i == CHOOSE j \in 1..Len(s) : s[j] = sep /\ \A k \in 1..(j - 1) : s[k] # sep
         IN  <<SubSeq(s, 1, i - 1)>> \o Split(SubSeq(s, i + 1, Len(s)), sep)

\* str::strip_prefix
StripPrefix(s, pre) ==
    IF Len(s) >= Len(pre) /\ SubSeq(s, 1, Len(pre)) = pre
    THEN [some |-> TRUE, v |-> SubSeq(s, Len(pre) + 1, Len(s))]
    ELSE [some |-> FALSE, v |-> <<>>]

\* The number of decimal digits of u64::MAX.
U64Digits == 20

RECURSIVE StripZeros(_)
StripZeros(ds) == IF Len(ds) > 1 /\ Head(ds) = "0" THEN StripZeros(Tail(ds)) ELSE ds

RECURSIVE DecimalValue(_)
DecimalValue(ds) ==
    IF ds = <<>> THEN 0
    ELSE 10 * DecimalValue(SubSeq(ds, 1, Len(ds) - 1)) + DigitValue(ds[Len(ds)])

\* str::parse::<u64>: an optional "+", then one or more digits and nothing
\* else; a number of more digits than u64::MAX has is an error.
ParseU64(s) ==
    LET ds == IF s # <<>> /\ Head(s) = "+" THEN Tail(s) ELSE s
    IN  IF ds = <<>> \/ (\E i \in 1..Len(ds) : ~IsDigit(ds[i]))
             \/ Len(StripZeros(ds)) > U64Digits
        THEN NoneI
        ELSE SomeI(DecimalValue(StripZeros(ds)))

MaxAgePrefix == <<"m", "a", "x", "-", "a", "g", "e", "=">>

RECURSIVE FirstMaxAgeDecides(_)
\* FirstMaxAge returning at the first piece that begins with max-age=, whether
\* its value parses or not.
FirstMaxAgeDecides(parts) ==
    IF parts = <<>> THEN NoneI
    ELSE LET rest == StripPrefix(Trim(Head(parts)), MaxAgePrefix)
         IN  IF rest.some THEN ParseU64(Trim(rest.v))
             ELSE FirstMaxAgeDecides(Tail(parts))

RECURSIVE FirstMaxAge(_)
\* The loop of parse_cache_control_max_age over the pieces: the first piece
\* that is max-age=<u64>.
FirstMaxAge(parts) ==
    IF parts = <<>> THEN NoneI
    ELSE LET rest == StripPrefix(Trim(Head(parts)), MaxAgePrefix)
         IN  IF rest.some /\ ParseU64(Trim(rest.v)).some THEN ParseU64(Trim(rest.v))
             ELSE FirstMaxAge(Tail(parts))

parse_cache_control_max_age(cc) == FirstMaxAge(Split(cc, ","))

\* unwrap_or(300) in fetch_json_string_with_cache_control
DefaultMaxAge == 300

\* The max_age fetch_json_string_with_cache_control returns with the body:
\* the header's max-age, or 300 without a header or a max-age in it.
MaxAgeOf(resp) ==
    IF resp.cache_control.some /\ parse_cache_control_max_age(resp.cache_control.v).some
    THEN parse_cache_control_max_age(resp.cache_control.v).v
    ELSE DefaultMaxAge

\* Milliseconds in a second (ttl as u128 * 1000).
MsPerSec == 1000

Min(a, b) == IF a < b THEN a ELSE b

\* ------------------------------------------------------------------- state

Calls == {1, 2}
Urls == {"u1", "u2"}

VARIABLES
    calls,    \* per call of verify_with_source: its locals and where it is
    cache,    \* JWKS_CACHE: url -> CachedJwks
    now,      \* the clock, in seconds
    dec,      \* a call of decoding_key_from_jwk on its own: the JWK and the outcome
    dcache,   \* DISCOVERY_CACHE: discovery url -> (expiry, jwks_uri)
    rcalls,   \* per call of resolve_oidc_jwks_url: its locals and where it is
    unit      \* a call of a free function on its own: the argument and the outcome

vars == <<calls, cache, now, dec, dcache, rcalls, unit>>

\* A result: Ok or the Error variant, with what its message carries.
Res(kind, msg) == [kind |-> kind, msg |-> msg, status |-> 0]

\* Error::Jwks(format!("fetch failed: {}", resp.status()))
JwksFetchFailed(status) == [kind |-> "Jwks", msg |-> "fetch failed", status |-> status]
NoRes == Res("none", "")

\* A cache entry.  at_ms is no field of CachedJwks: it records the clock at
\* the moment the entry was written.
NoEntry == [present |-> FALSE, exp_at_ms |-> 0, jwks |-> <<>>, at_ms |-> 0]
CachedJwks(exp_at_ms, jwks, at_ms) ==
    [present |-> TRUE, exp_at_ms |-> exp_at_ms, jwks |-> jwks, at_ms |-> at_ms]

NoOptions == Options("", NoneQ, NoneQ, {}, 0, 0, FALSE)

\* No response received.
NoResponse == [net |-> "none", status |-> 0, cache_control |-> NoneQ, body |-> Garbage]

\* A call that has not started.  decoded, tried, winner, t_dec, cache_reads,
\* fetches, cache_writes, parses and resp record what the call did: the
\* candidates handed to decoding_key_from_jwk, those handed to
\* jsonwebtoken::decode, the one that verified, the clock at that decode, how
\* often the call read the cache, sent a GET, wrote the cache and parsed a
\* key-set document, the response its GET received, and the entry its cache
\* lookup found.
IdleCall ==
    [pc |-> "idle", token |-> Malformed, source |-> SrcSet(<<>>), opts |-> NoOptions,
     header |-> NoHeader, keys |-> <<>>, cands |-> <<>>, idx |-> 0, last_err |-> "",
     now_ms |-> 0, res |-> NoRes,
     decoded |-> <<>>, tried |-> <<>>, winner |-> 0, t_dec |-> 0,
     cache_reads |-> 0, fetches |-> 0, cache_writes |-> 0, parses |-> 0,
     resp |-> NoResponse, seen |-> NoEntry]

Done(call, res) == [call EXCEPT !.pc = "done", !.res = res]

\* No call of decoding_key_from_jwk on its own.
NoDec == [pc |-> "none", jwk |-> K1A, key |-> KeyErr("")]

\* A value of DISCOVERY_CACHE, (u128, String), or none under the key.  issuer
\* is no part of the tuple: it records the issuer as the storing call was
\* given it.
NoDiscoveryEntry == [present |-> FALSE, exp_at_ms |-> 0, jwks_uri |-> <<>>, issuer |-> <<>>]
CachedDiscovery(exp_at_ms, jwks_uri, issuer) ==
    [present |-> TRUE, exp_at_ms |-> exp_at_ms, jwks_uri |-> jwks_uri, issuer |-> issuer]

\* DashMap::new(): no key.
NoDiscovery == [k \in {} |-> NoDiscoveryEntry]

\* DISCOVERY_CACHE.get(&discovery)
DiscoveryGet(map, discovery) ==
    IF discovery \in DOMAIN map THEN map[discovery] ELSE NoDiscoveryEntry

\* DISCOVERY_CACHE.insert(discovery, entry)
DiscoveryInsert(map, discovery, entry) ==
    [k \in DOMAIN map \cup {discovery} |-> IF k = discovery THEN entry ELSE map[k]]

\* A call of resolve_oidc_jwks_url that has not started.  cache_reads,
\* fetches, cache_writes, resp and seen record what the call did: how often it
\* read the discovery cache, sent a GET and wrote the cache, the response its
\* GET received, and the entry its lookup found.
IdleResolve ==
    [pc |-> "idle", issuer |-> <<>>, max_age_seconds |-> 0, discovery |-> <<>>,
     now_ms |-> 0, res |-> NoRes, jwks_uri |-> <<>>,
     cache_reads |-> 0, fetches |-> 0, cache_writes |-> 0,
     resp |-> NoResponse, seen |-> NoDiscoveryEntry]

\* No call of a free function on its own.  parts records how the argument
\* was put together.
NoUnit == [pc |-> "none", fn |-> "", arg |-> <<>>, parts |-> <<>>, out |-> <<>>]

\* A free function is about to be called on arg.
UnitCall(fn, arg, parts) ==
    [pc |-> "call", fn |-> fn, arg |-> arg, parts |-> parts, out |-> <<>>]

\* ------------------------------------------------------ verify_with_source

\* AlgAllowed against the default allow-list instead of the caller's.
AlgAllowedDefault(header, opts) == header.alg \in DefaultAlgs

\* opts.allowed_algs.contains(&header.alg)
AlgAllowed(header, opts) == header.alg \in opts.allowed_algs

\* MissingKid taking only an absent kid for missing, not an empty one.
MissingKidAbsentOnly(header, opts) == opts.require_kid /\ ~header.kid.some

\* opts.require_kid && header.kid.as_deref().unwrap_or("").is_empty()
MissingKid(header, opts) ==
    opts.require_kid /\ (IF header.kid.some THEN header.kid.v ELSE "") = ""

\* Gates with the header's decode failure reported after the two gates.
GatesHeaderLast(token, opts) ==
    LET h == decode_header(token)
    IN  IF ~AlgAllowed(h.header, opts) THEN Res("UnsupportedAlg", h.header.alg)
        ELSE IF MissingKid(h.header, opts) THEN Res("InvalidJwt", "missing kid")
        ELSE IF ~h.ok THEN Res("InvalidJwt", "failed to decode header")
        ELSE NoRes

\* Gates with the kid gate ahead of the algorithm gate.
GatesKidFirst(token, opts) ==
    LET h == decode_header(token)
    IN  IF ~h.ok THEN Res("InvalidJwt", "failed to decode header")
        ELSE IF MissingKid(h.header, opts) THEN Res("InvalidJwt", "missing kid")
        ELSE IF ~AlgAllowed(h.header, opts) THEN Res("UnsupportedAlg", h.header.alg)
        ELSE NoRes

\* The head of verify_with_source: the header, the algorithm gate, the kid
\* gate, in that order.  The error it returns, or NoRes to go on to load_jwks.
Gates(token, opts) ==
    LET h == decode_header(token)
    IN  IF ~h.ok THEN Res("InvalidJwt", "failed to decode header")
        ELSE IF ~AlgAllowed(h.header, opts) THEN Res("UnsupportedAlg", h.header.alg)
        ELSE IF MissingKid(h.header, opts) THEN Res("InvalidJwt", "missing kid")
        ELSE NoRes

\* A call of verify_with_source up to load_jwks.
verify_with_source(c, token, source, opts) ==
    /\ calls[c].pc = "idle"
    /\ LET call == [IdleCall EXCEPT !.token = token, !.source = source, !.opts = opts,
                                    !.header = decode_header(token).header]
       IN  calls' = [calls EXCEPT ![c] =
                IF Gates(token, opts) # NoRes THEN Done(call, Gates(token, opts))
                ELSE [call EXCEPT !.pc = "load"]]
    /\ UNCHANGED <<cache, now, dec, dcache, rcalls, unit>>

\* verify_with_jwks_url: the same call on Url(opts.jwks_url).
verify_with_jwks_url(c, token, opts) ==
    verify_with_source(c, token, SrcUrl(opts.jwks_url), opts)

\* ---------------------------------------------------------------- load_jwks

\* now_epoch_ms
now_epoch_ms == now * MsPerSec

\* FreshEntry taking an entry to be stale one second early.
FreshEntryEarly(entry, now_ms) == entry.present /\ entry.exp_at_ms > now_ms + MsPerSec

\* FreshEntry serving an entry up to and including its expiry instant.
FreshEntryInclusive(entry, now_ms) == entry.present /\ entry.exp_at_ms >= now_ms

\* if let Some(cached) = JWKS_CACHE.get(url) { if cached.exp_at_ms > now_ms
FreshEntry(entry, now_ms) == entry.present /\ entry.exp_at_ms > now_ms

\* JwksSource::Set(set) => Ok(set.clone())
LoadSet(call) == [call EXCEPT !.pc = "verify", !.keys = call.source.set]

\* LoadJson going on with the key set cached for u1 when there is one.
LoadJsonThroughCache(call) ==
    IF cache["u1"].present
    THEN [call EXCEPT !.pc = "verify", !.keys = cache["u1"].jwks, !.cache_reads = @ + 1]
    ELSE IF ParseJwks(call.source.doc).ok
    THEN [call EXCEPT !.pc = "verify", !.keys = ParseJwks(call.source.doc).keys,
                      !.parses = @ + 1]
    ELSE [Done(call, Res("Json", "parse")) EXCEPT !.parses = @ + 1]

\* JwksSource::Json(s) => Ok(serde_json::from_str::<JwksSet>(s)?)
LoadJson(call) ==
    IF ParseJwks(call.source.doc).ok
    THEN [call EXCEPT !.pc = "verify", !.keys = ParseJwks(call.source.doc).keys,
                      !.parses = @ + 1]
    ELSE [Done(call, Res("Json", "parse")) EXCEPT !.parses = @ + 1]

\* JwksSource::Url(url), up to the await on fetch_jwks_url.
LoadUrl(call, entry, now_ms) ==
    IF FreshEntry(entry, now_ms)
    THEN [call EXCEPT !.pc = "verify", !.keys = entry.jwks,
                      !.now_ms = now_ms, !.cache_reads = @ + 1, !.seen = entry]
    ELSE [call EXCEPT !.pc = "fetch", !.now_ms = now_ms,
                      !.cache_reads = @ + 1, !.fetches = @ + 1, !.seen = entry]

\* load_jwks up to its first await: Set and Json resolve at once; Url reads the
\* clock and the cache and, without a fresh entry, sends the GET.
load_jwks(c) ==
    LET call == calls[c]
        src == call.source
    IN  /\ call.pc = "load"
        /\ calls' = [calls EXCEPT ![c] =
             CASE src.kind = "Set" -> LoadSet(call)
               [] src.kind = "Json" -> LoadJson(call)
               [] OTHER -> LoadUrl(call, cache[src.url], now_epoch_ms)]
        /\ UNCHANGED <<cache, now, dec, dcache, rcalls, unit>>

\* Ttl without the cap of max_jwks_age_seconds.
TtlUncapped(resp, opts) == MaxAgeOf(resp)

\* let ttl = std::cmp::min(max_age_seconds, opts.max_jwks_age_seconds)
Ttl(resp, opts) == Min(MaxAgeOf(resp), opts.max_jwks_age_seconds)

\* let exp_at_ms = now_ms + (ttl as u128 * 1000), now_ms being the clock
\* load_jwks read before it looked into the cache.
ExpAtMs(call, resp) == call.now_ms + Ttl(resp, call.opts) * MsPerSec

\* FetchFails taking every status below 400 for a success.
FetchFailsBelow400Ok(resp) ==
    CASE resp.net \in {"error", "timeout"} -> Res("Reqwest", resp.net)
      [] ~(resp.status \in 200..399) -> JwksFetchFailed(resp.status)
      [] resp.net = "reset" -> Res("Reqwest", resp.net)
      [] ~ParseJwks(resp.body).ok -> Res("Json", "parse")
      [] OTHER -> NoRes

\* fetch_done caching the key set of a response whatever its status.
FetchFailsStatusIgnored(resp) ==
    CASE resp.net \in {"error", "timeout"} -> Res("Reqwest", resp.net)
      [] resp.net = "reset" -> Res("Reqwest", resp.net)
      [] ~ParseJwks(resp.body).ok -> Res("Json", "parse")
      [] OTHER -> NoRes

\* FetchFails reporting a non-2xx status as the absence of a usable key.
FetchFailsNoMatchingKey(resp) ==
    CASE resp.net \in {"error", "timeout"} -> Res("Reqwest", resp.net)
      [] ~(resp.status \in 200..299) -> Res("NoMatchingKey", "")
      [] resp.net = "reset" -> Res("Reqwest", resp.net)
      [] ~ParseJwks(resp.body).ok -> Res("Json", "parse")
      [] OTHER -> NoRes

\* The error fetch_jwks_url returns for a response, NoRes when it returns a
\* key set: send fails, the status is not 2xx, the body cannot be read, the
\* body is no JWKS document.
FetchFails(resp) ==
    CASE resp.net \in {"error", "timeout"} -> Res("Reqwest", resp.net)
      [] ~(resp.status \in 200..299) -> JwksFetchFailed(resp.status)
      [] resp.net = "reset" -> Res("Reqwest", resp.net)
      [] ~ParseJwks(resp.body).ok -> Res("Json", "parse")
      [] OTHER -> NoRes

\* FailedFetch going on with the key set of the entry the lookup found, stale
\* as it is, when there is one.
FailedFetchServesStale(call, resp) ==
    IF call.seen.present
    THEN [call EXCEPT !.pc = "verify", !.keys = call.seen.jwks, !.resp = resp]
    ELSE [Done(call, FetchFails(resp)) EXCEPT
             !.resp = resp,
             !.parses = IF FetchFails(resp).kind = "Json" THEN @ + 1 ELSE @]

\* load_jwks leaves with the error of fetch_jwks_url (`?`), and so does
\* verify_with_source.
FailedFetch(call, resp) ==
    [Done(call, FetchFails(resp)) EXCEPT
        !.resp = resp,
        !.parses = IF FetchFails(resp).kind = "Json" THEN @ + 1 ELSE @]

\* InsertEntry adding the new keys to those of the entry it finds.
InsertEntryMerging(old, new) ==
    IF old.present THEN [new EXCEPT !.jwks = old.jwks \o new.jwks] ELSE new

\* InsertEntry keeping the expiry of the entry it finds.
InsertEntryKeepsExpiry(old, new) ==
    IF old.present THEN [new EXCEPT !.exp_at_ms = old.exp_at_ms] ELSE new

\* InsertEntry keeping, of the entry it finds and the new one, the one that
\* expires later.
InsertEntryLatestExpiry(old, new) ==
    IF old.present /\ old.exp_at_ms > new.exp_at_ms THEN old ELSE new

\* JWKS_CACHE.insert(url, entry): the entry of the URL after the insert.
InsertEntry(old, new) == new

\* The GET of fetch_jwks_url comes back (or fails, or times out) and load_jwks
\* finishes: a failure ends the call; otherwise the key set is cached for
\* min(max-age or 300, max_jwks_age_seconds) seconds from now_ms.
fetch_done(c, resp) ==
    LET call == calls[c]
        url == call.source.url
        parsed == ParseJwks(resp.body)
        exp_at_ms == ExpAtMs(call, resp)
        fails == FetchFails(resp)
    IN  /\ call.pc = "fetch"
        /\ IF fails # NoRes
           THEN /\ calls' = [calls EXCEPT ![c] = FailedFetch(call, resp)]
                /\ UNCHANGED cache
           ELSE /\ calls' = [calls EXCEPT ![c] =
                      [call EXCEPT !.pc = "verify", !.keys = parsed.keys, !.resp = resp,
                                   !.parses = @ + 1, !.cache_writes = @ + 1]]
                /\ cache' = [cache EXCEPT ![url] =
                      InsertEntry(@, CachedJwks(exp_at_ms, parsed.keys, now_epoch_ms))]
        /\ UNCHANGED <<now, dec, dcache, rcalls, unit>>

\* ------------------------------------------------------ verify_against_jwks

\* verify_against_jwks up to its loop: the candidates.
select_candidates(c) ==
    LET call == calls[c]
    IN  /\ call.pc = "verify"
        /\ calls' = [calls EXCEPT ![c] =
              [call EXCEPT !.pc = "trial", !.cands = Candidates(call.header, call.keys),
                           !.idx = 1, !.last_err = ""]]
        /\ UNCHANGED <<cache, now, dec, dcache, rcalls, unit>>

\* TrialOutcome that notes a success and goes on to the next candidate.
TrialOutcomeKeepGoing(call, t) ==
    LET pos == call.cands[call.idx]
        key == decoding_key_from_jwk(call.keys[pos])
        seen == [call EXCEPT !.decoded = Append(@, pos)]
        lib == LibDecode(call.token, key, call.opts.leeway_seconds, t)
        att == [seen EXCEPT !.tried = Append(@, pos), !.t_dec = t]
        via == validate_issuer_audience(call.token, call.opts)
    IN  CASE key.out = "panic" -> [seen EXCEPT !.pc = "panicked"]
          [] key.out = "err" -> [seen EXCEPT !.idx = @ + 1]
          [] OTHER ->
               IF lib = "Ok"
               THEN IF call.idx < Len(call.cands)
                    THEN [att EXCEPT !.winner = pos, !.idx = @ + 1]
                    ELSE IF via = "" THEN Done([att EXCEPT !.winner = pos], Res("Ok", ""))
                    ELSE Done([att EXCEPT !.winner = pos], Res("Validation", via))
               ELSE [att EXCEPT !.last_err = lib, !.idx = @ + 1]

\* TrialOutcome that takes a failed issuer or audience check for one more
\* failed candidate and goes on.
TrialOutcomeValidationSkips(call, t) ==
    LET pos == call.cands[call.idx]
        key == decoding_key_from_jwk(call.keys[pos])
        seen == [call EXCEPT !.decoded = Append(@, pos)]
        lib == LibDecode(call.token, key, call.opts.leeway_seconds, t)
        att == [seen EXCEPT !.tried = Append(@, pos), !.t_dec = t]
        via == validate_issuer_audience(call.token, call.opts)
    IN  CASE key.out = "panic" -> [seen EXCEPT !.pc = "panicked"]
          [] key.out = "err" -> [seen EXCEPT !.idx = @ + 1]
          [] OTHER ->
               IF lib = "Ok"
               THEN IF via = "" THEN Done([att EXCEPT !.winner = pos], Res("Ok", ""))
                    ELSE [att EXCEPT !.winner = pos, !.last_err = via, !.idx = @ + 1]
               ELSE [att EXCEPT !.last_err = lib, !.idx = @ + 1]

\* What one turn of the loop makes of the call: the candidate is decoded to a
\* key handle (a failure skips it, a panic ends the call), the token is
\* checked against it at clock t, and the first success runs
\* validate_issuer_audience and returns.
TrialOutcome(call, t) ==
    LET pos == call.cands[call.idx]
        key == decoding_key_from_jwk(call.keys[pos])
        seen == [call EXCEPT !.decoded = Append(@, pos)]
        lib == LibDecode(call.token, key, call.opts.leeway_seconds, t)
        att == [seen EXCEPT !.tried = Append(@, pos), !.t_dec = t]
        via == validate_issuer_audience(call.token, call.opts)
    IN  CASE key.out = "panic" -> [seen EXCEPT !.pc = "panicked"]
          [] key.out = "err" -> [seen EXCEPT !.idx = @ + 1]
          [] OTHER ->
               IF lib = "Ok"
               THEN IF via = "" THEN Done([att EXCEPT !.winner = pos], Res("Ok", ""))
                    ELSE Done([att EXCEPT !.winner = pos], Res("Validation", via))
               ELSE [att EXCEPT !.last_err = lib, !.idx = @ + 1]

\* One turn of `for jwk in candidates`.
trial_step(c) ==
    /\ calls[c].pc = "trial"
    /\ calls[c].idx <= Len(calls[c].cands)
    /\ calls' = [calls EXCEPT ![c] = TrialOutcome(calls[c], now)]
    /\ UNCHANGED <<cache, now, dec, dcache, rcalls, unit>>

\* trial_end answering a failed verification on a Url source with a new GET of
\* the key set.
trial_end_refetches(c) ==
    LET call == calls[c]
    IN  /\ call.pc = "trial"
        /\ call.idx > Len(call.cands)
        /\ calls' = [calls EXCEPT ![c] =
              IF call.source.kind = "Url" /\ call.fetches = 0
              THEN [call EXCEPT !.pc = "fetch", !.fetches = @ + 1]
              ELSE IF call.last_err # "" THEN Done(call, Res("Validation", call.last_err))
              ELSE Done(call, Res("NoMatchingKey", ""))]
        /\ UNCHANGED <<cache, now, dec, dcache, rcalls, unit>>

\* After the loop: the last error as a Validation error, or NoMatchingKey.
trial_end(c) ==
    LET call == calls[c]
    IN  /\ call.pc = "trial"
        /\ call.idx > Len(call.cands)
        /\ calls' = [calls EXCEPT ![c] =
              IF call.last_err # "" THEN Done(call, Res("Validation", call.last_err))
              ELSE Done(call, Res("NoMatchingKey", ""))]
        /\ UNCHANGED <<cache, now, dec, dcache, rcalls, unit>>

\* The caller takes the result (or the panic) and the call is over.
Return(c) ==
    /\ calls[c].pc \in {"done", "panicked"}
    /\ calls' = [calls EXCEPT ![c] = IdleCall]
    /\ UNCHANGED <<cache, now, dec, dcache, rcalls, unit>>

\* Time passes.
TickTo(limit) ==
    /\ now < limit
    /\ now' = now + 1
    /\ UNCHANGED <<calls, cache, dec, dcache, rcalls, unit>>

Tick == TickTo(MaxTime)

\* --------------------------------------------------- resolve_oidc_jwks_url

\* str::trim_end_matches(ch): s without its trailing run of ch.
RECURSIVE TrimEndMatches(_, _)
TrimEndMatches(s, ch) ==
    IF Len(s) > 0 /\ s[Len(s)] = ch THEN TrimEndMatches(SubSeq(s, 1, Len(s) - 1), ch) ELSE s

WellKnown ==
    <<"/", ".", "w", "e", "l", "l", "-", "k", "n", "o", "w", "n", "/",
      "o", "p", "e", "n", "i", "d", "-",
      "c", "o", "n", "f", "i", "g", "u", "r", "a", "t", "i", "o", "n">>

\* DiscoveryUrl removing one trailing slash and no more.
DiscoveryUrlOneSlash(issuer) == TrimSlash(issuer) \o WellKnown

\* format!("{issuer}/.well-known/openid-configuration") on the trimmed issuer
DiscoveryUrl(issuer) == TrimEndMatches(issuer, "/") \o WellKnown

\* The body of a discovery response: JSON or not, and the value under
\* "jwks_uri" (absent also when the document is no object).
DiscoveryDoc(wf, jwks_uri) == [wf |-> wf, jwks_uri |-> jwks_uri]

\* DiscoveryFresh serving an entry up to and including its expiry instant.
DiscoveryFreshInclusive(entry, now_ms) == entry.present /\ entry.exp_at_ms >= now_ms

\* if let Some(cached) = DISCOVERY_CACHE.get(&discovery) { if cached.value().0 > now_ms
DiscoveryFresh(entry, now_ms) == entry.present /\ entry.exp_at_ms > now_ms

\* let ttl = std::cmp::min(max_age, max_age_seconds)
DiscoveryTtl(resp, max_age_seconds) == Min(MaxAgeOf(resp), max_age_seconds)

\* The errors of fetch_json_with_cache_control, in the order they arise: send,
\* status, reading the body, serde_json::from_str::<Value>.
DiscoveryFetchFails(resp) ==
    CASE resp.net \in {"error", "timeout"} -> Res("Reqwest", resp.net)
      [] ~(resp.status \in 200..299) -> JwksFetchFailed(resp.status)
      [] resp.net = "reset" -> Res("Reqwest", resp.net)
      [] ~resp.body.wf -> Res("Json", "parse")
      [] OTHER -> NoRes

\* resolve_oidc_jwks_url up to its await: the discovery URL, the clock, the
\* lookup and, without a fresh entry, the GET.
resolve_oidc_jwks_url(c, issuer, max_age_seconds) ==
    /\ rcalls[c].pc = "idle"
    /\ LET discovery == DiscoveryUrl(issuer)
           entry == DiscoveryGet(dcache, discovery)
           call == [IdleResolve EXCEPT !.issuer = issuer,
                                       !.max_age_seconds = max_age_seconds,
                                       !.discovery = discovery, !.now_ms = now_epoch_ms,
                                       !.cache_reads = 1, !.seen = entry]
       IN  rcalls' = [rcalls EXCEPT ![c] =
                IF DiscoveryFresh(entry, now_epoch_ms)
                THEN [call EXCEPT !.pc = "done", !.res = Res("Ok", ""),
                                  !.jwks_uri = entry.jwks_uri]
                ELSE [call EXCEPT !.pc = "fetch", !.fetches = 1]]
    /\ UNCHANGED <<calls, cache, now, dec, dcache, unit>>

\* The GET of the discovery document comes back (or fails, or times out) and
\* resolve_oidc_jwks_url finishes.
discovery_done(c, resp) ==
    LET call == rcalls[c]
        fails == DiscoveryFetchFails(resp)
        jwks_uri == as_str(resp.body.jwks_uri)
        ttl == DiscoveryTtl(resp, call.max_age_seconds)
    IN  /\ call.pc = "fetch"
        /\ IF fails # NoRes
           THEN /\ rcalls' = [rcalls EXCEPT ![c] =
                      [call EXCEPT !.pc = "done", !.res = fails, !.resp = resp]]
                /\ UNCHANGED dcache
           ELSE IF ~jwks_uri.some
           THEN /\ rcalls' = [rcalls EXCEPT ![c] =
                      [call EXCEPT !.pc = "done", !.resp = resp,
                                   !.res = Res("Jwks", "OIDC discovery missing jwks_uri")]]
                /\ UNCHANGED dcache
           ELSE /\ rcalls' = [rcalls EXCEPT ![c] =
                      [call EXCEPT !.pc = "done", !.res = Res("Ok", ""), !.resp = resp,
                                   !.jwks_uri = jwks_uri.v, !.cache_writes = 1]]
                /\ dcache' = DiscoveryInsert(dcache, call.discovery,
                      CachedDiscovery(call.now_ms + ttl * MsPerSec, jwks_uri.v,
                                      call.issuer))
        /\ UNCHANGED <<calls, cache, now, dec, unit>>

\* The caller has the result of resolve_oidc_jwks_url.
resolve_return(c) ==
    /\ rcalls[c].pc = "done"
    /\ rcalls' = [rcalls EXCEPT ![c] = IdleResolve]
    /\ UNCHANGED <<calls, cache, now, dec, dcache, unit>>

\* ------------------------------------------------------------------ inputs

KeyPool == {K1A, K2B, K1NoN, KEdB, K2Short}
KeySets == SeqsUpTo(KeyPool, MaxKeys)

\* (exp, nbf) as the tokens of the verification runs carry them.
TimeProfiles ==
    {<<NoneI, NoneI>>, <<SomeI(1), NoneI>>, <<SomeI(3), NoneI>>, <<SomeI(3), SomeI(3)>>}

\* Tokens that vary in what candidate selection and the trial loop read.
KeyTokens ==
    {Token(TRUE, alg, kid, signer, tp[1], tp[2], JStr(IssSlash), JStr(AudApi)) :
        alg \in {"RS256", "EdDSA"}, kid \in {NoneS, SomeS("k1"), SomeS("k2")},
        signer \in {"A", "B"}, tp \in TimeProfiles}

KeyOptions ==
    {Options("", ia[1], ia[2], DefaultAlgs, leeway, DefaultMaxAge, FALSE) :
        ia \in {<<NoneQ, NoneQ>>, <<SomeQ(IssBare), SomeQ(AudApi)>>}, leeway \in {0, 1}}

IssClaims == {JAbsent, JStr(IssSlash), JStr(IssBare), JNum}
AudClaims ==
    {JAbsent, JStr(AudApi), JStr(AudOther), JNum,
     JArr(<<JStr(AudApi), JStr(AudOther)>>), JArr(<<JStr(AudOther), JStr(AudApi)>>),
     JArr(<<JStr(AudOther), JNum>>), JArr(<<>>)}

\* Tokens that vary in what validate_issuer_audience reads.
ClaimTokens ==
    {Token(TRUE, "RS256", SomeS("k1"), "A", SomeI(3), NoneI, iss, aud) :
        iss \in IssClaims, aud \in AudClaims}

ClaimOptions ==
    {Options("", issuer, audience, DefaultAlgs, 0, DefaultMaxAge, FALSE) :
        issuer \in {NoneQ, SomeQ(IssSlash), SomeQ(IssBare)},
        audience \in {NoneQ, SomeQ(AudApi)}}

ClaimKeySets == {<<K1A>>, <<K2B>>, <<K1NoN, K1A>>}

\* The inputs of the runs of verify_against_jwks alone.
VerifyInputs ==
    (KeyTokens \X KeySets \X KeyOptions) \cup (ClaimTokens \X ClaimKeySets \X ClaimOptions)

\* Tokens, options, sources and responses of whole calls.
FlowTokens ==
    {Malformed} \cup
    {Token(TRUE, alg, kid, "A", exp, NoneI, JStr(IssSlash), JStr(AudApi)) :
        alg \in {"RS256", "EdDSA", "HS256"}, kid \in {NoneS, SomeS(""), SomeS("k1")},
        exp \in {SomeI(2)}}

FlowOptions ==
    {Options("u1", ia[1], ia[2], allowed, 0, maxage, reqkid) :
        ia \in {<<NoneQ, NoneQ>>, <<SomeQ(IssSlash), SomeQ(AudApi)>>,
                 <<SomeQ(IssBare), SomeQ(AudApi)>>},
        allowed \in {DefaultAlgs, {"EdDSA", "HS256"}},
        maxage \in {1}, reqkid \in BOOLEAN}

FlowSources ==
    {SrcSet(<<K1A>>), SrcSet(<<K2B>>), SrcSet(<<K2B, K1A>>), SrcJson(Garbage),
     SrcJson(DocOf(<<K1A>>)),
     SrcJson(Doc(TRUE, <<ToJsonNoKty(K1A)>>))}
    \cup {SrcUrl(u) : u \in Urls}

\* Cache-Control header values.
CcNoStore == <<"n", "o", "-", "s", "t", "o", "r", "e">>
CcMaxAge(ds) == MaxAgePrefix \o ds
CcPublicMaxAge(ds) == <<"p", "u", "b", "l", "i", "c", ",", " ">> \o MaxAgePrefix \o ds

Responses ==
    {Response("error", 0, NoneQ, Garbage), Response("timeout", 0, NoneQ, Garbage),
     Response("ok", 404, NoneQ, Garbage), Response("ok", 200, NoneQ, Garbage),
     Response("ok", 200, NoneQ, DocOf(<<K1A>>)),
     Response("ok", 200, SomeQ(CcMaxAge(<<"0">>)), DocOf(<<K1A>>)),
     Response("ok", 200, SomeQ(CcMaxAge(<<"1">>)), DocOf(<<K2B, K1A>>))}

\* Tokens, options and responses of the calls that exercise the JWKS cache.
CacheTokens ==
    {Token(TRUE, "RS256", SomeS("k1"), signer, SomeI(StartTime + CacheSpan), NoneI,
           JStr(IssSlash), JStr(AudApi)) : signer \in {"A", "B"}}

CacheOptions ==
    {Options("u1", NoneQ, NoneQ, DefaultAlgs, 0, maxage, FALSE) : maxage \in {1, 2, 600}}

CacheHeaders ==
    {NoneQ, SomeQ(CcNoStore), SomeQ(CcMaxAge(<<"0">>)), SomeQ(CcPublicMaxAge(<<"1">>)),
     SomeQ(CcMaxAge(<<"2">>)), SomeQ(CcMaxAge(<<"6", "0">>))}

CacheResponses ==
    {Response("error", 0, NoneQ, Garbage), Response("timeout", 0, NoneQ, Garbage),
     Response("ok", 404, SomeQ(CcMaxAge(<<"2">>)), DocOf(<<K1A>>)),
     Response("ok", 300, SomeQ(CcMaxAge(<<"2">>)), DocOf(<<K1A>>)),
     Response("ok", 500, NoneQ, Garbage),
     Response("reset", 200, SomeQ(CcMaxAge(<<"2">>)), DocOf(<<K1A>>)),
     Response("ok", 200, SomeQ(CcMaxAge(<<"2">>)), Garbage),
     Response("ok", 200, SomeQ(CcMaxAge(<<"2">>)), Doc(TRUE, <<ToJsonNoKty(K1A)>>))}
    \cup {Response("ok", 200, cc, DocOf(keys)) :
            cc \in CacheHeaders, keys \in {<<K1A>>, <<K2B, K1A>>}}

\* ---------------------------------------------------------- specifications

\* Calls made one after another.
SeqCalls == {1}

Init ==
    /\ calls = [c \in Calls |-> IdleCall]
    /\ cache = [u \in Urls |-> NoEntry]
    /\ now = StartTime
    /\ dec = NoDec
    /\ dcache = NoDiscovery
    /\ rcalls = [c \in Calls |-> IdleResolve]
    /\ unit = NoUnit

Next ==
    \/ \E c \in SeqCalls :
          \/ \E token \in FlowTokens, source \in FlowSources, opts \in FlowOptions :
                verify_with_source(c, token, source, opts)
          \/ \E token \in FlowTokens, opts \in FlowOptions :
                verify_with_jwks_url(c, token, opts)
          \/ load_jwks(c)
          \/ \E resp \in Responses : fetch_done(c, resp)
          \/ select_candidates(c)
          \/ trial_step(c)
          \/ trial_end(c)
          \/ Return(c)
    \/ Tick

\* Whole calls of verify_with_source, one at a time, sharing the cache.
Spec == Init /\ [][Next]_vars

CacheEnd == StartTime + CacheSpan

CacheNext ==
    \/ \E c \in SeqCalls :
          \/ \E token \in CacheTokens, u \in Urls, opts \in CacheOptions :
                verify_with_source(c, token, SrcUrl(u), opts)
          \/ \E token \in CacheTokens, opts \in CacheOptions :
                verify_with_jwks_url(c, token, opts)
          \/ load_jwks(c)
          \/ \E resp \in CacheResponses : fetch_done(c, resp)
          \/ select_candidates(c)
          \/ trial_step(c)
          \/ trial_end(c)
          \/ Return(c)
    \/ TickTo(CacheEnd)

\* Whole calls on Url sources, one at a time, with every kind of response and
\* the clock running past the expiry of the entries.
SpecCache == Init /\ [][CacheNext]_vars

ConcOptions ==
    {Options("u1", NoneQ, NoneQ, DefaultAlgs, 0, maxage, FALSE) : maxage \in {1, 600}}

ConcResponses ==
    {Response("timeout", 0, NoneQ, Garbage),
     Response("ok", 200, SomeQ(CcMaxAge(<<"2">>)), DocOf(<<K1A>>)),
     Response("ok", 200, NoneQ, DocOf(<<K2B, K1A>>))}

ConcNext ==
    \/ \E c \in Calls :
          \/ \E token \in CacheTokens, opts \in ConcOptions :
                verify_with_jwks_url(c, token, opts)
          \/ load_jwks(c)
          \/ \E resp \in ConcResponses : fetch_done(c, resp)
          \/ select_candidates(c)
          \/ trial_step(c)
          \/ trial_end(c)
          \/ Return(c)
    \/ Tick

\* Two calls on one URL at once, their steps interleaved in every order: the
\* lookup (the DashMap guard is held over the test and the clone) and the
\* insert are each one step, the GET lies between them.
SpecConc == Init /\ [][ConcNext]_vars

IssTwoSlashes == <<"i", "s", "s", "/", "/">>
IssB == <<"b">>
UriOne == <<"u", "1">>
UriTwo == <<"u", "2">>

DiscIssuers == {IssBare, IssSlash, IssTwoSlashes, IssB}

DiscMaxAges == {1, 600}

DiscTokens ==
    {Token(TRUE, "RS256", SomeS("k1"), "A", SomeI(StartTime + CacheSpan), NoneI,
           JStr(IssSlash), JStr(AudApi))}

DiscOptions == {Options("u1", NoneQ, NoneQ, DefaultAlgs, 0, 600, FALSE)}

DiscJwksResponses == {Response("ok", 200, SomeQ(CcMaxAge(<<"2">>)), DocOf(<<K2B>>))}

DiscResponses ==
    {Response("timeout", 0, NoneQ, DiscoveryDoc(FALSE, JAbsent)),
     Response("ok", 404, SomeQ(CcMaxAge(<<"2">>)), DiscoveryDoc(TRUE, JStr(UriOne))),
     Response("ok", 200, SomeQ(CcMaxAge(<<"2">>)), DiscoveryDoc(TRUE, JAbsent)),
     Response("ok", 200, SomeQ(CcMaxAge(<<"2">>)), DiscoveryDoc(TRUE, JNum)),
     Response("ok", 200, NoneQ, DiscoveryDoc(TRUE, JStr(UriOne))),
     Response("ok", 200, SomeQ(CcMaxAge(<<"2">>)), DiscoveryDoc(TRUE, JStr(UriTwo)))}

DiscNext ==
    \/ \E c \in SeqCalls :
          \/ \E issuer \in DiscIssuers, max_age_seconds \in DiscMaxAges :
                resolve_oidc_jwks_url(c, issuer, max_age_seconds)
          \/ \E resp \in DiscResponses : discovery_done(c, resp)
          \/ resolve_return(c)
          \/ \E token \in DiscTokens, opts \in DiscOptions :
                verify_with_jwks_url(c, token, opts)
          \/ load_jwks(c)
          \/ \E resp \in DiscJwksResponses : fetch_done(c, resp)
          \/ select_candidates(c)
          \/ trial_step(c)
          \/ trial_end(c)
          \/ Return(c)
    \/ Tick

\* Calls of resolve_oidc_jwks_url, one at a time, next to calls of
\* verify_with_jwks_url, with the clock running past the expiry of the entries.
SpecDisc == Init /\ [][DiscNext]_vars

\* The values after max-age= in the headers handed to the parser: integers,
\* with zeros, a sign or blanks around them, one too long for a u64, and
\* things that are no integer.
MaxAgeValues ==
    {<<"5">>, <<"6", "0">>, <<"0">>, <<"0", "0", "7">>, <<"+", "4">>, <<" ", "7", " ">>,
     <<"a", "b", "c">>, <<>>, <<"-", "1">>, <<"5", "s">>,
     [i \in 1..(U64Digits + 1) |-> "9"]}

\* The directives of the headers handed to the parser.
ParseDirectives ==
    {CcMaxAge(ds) : ds \in MaxAgeValues}
    \cup {CcNoStore, <<"p", "u", "b", "l", "i", "c">>,
          <<"s", "-", "m", "a", "x", "a", "g", "e", "=", "3">>, <<>>}

\* What stands between two directives.
ParseSeparators == {<<",">>, <<",", " ">>}

\* The headers handed to the parser: one directive, or two.
ParseHeaders ==
    {UnitCall("parse_cache_control_max_age", a, <<a>>) : a \in ParseDirectives}
    \cup {UnitCall("parse_cache_control_max_age", a \o sep \o b, <<a, b>>) :
            a \in ParseDirectives, b \in ParseDirectives, sep \in ParseSeparators}

\* parse_cache_control_max_age is about to be called on a header value.
ParseInit ==
    /\ calls = [c \in Calls |-> IdleCall]
    /\ cache = [u \in Urls |-> NoEntry]
    /\ now = StartTime
    /\ dec = NoDec
    /\ dcache = NoDiscovery
    /\ rcalls = [c \in Calls |-> IdleResolve]
    /\ unit \in ParseHeaders

\* The call returns.
parse_max_age ==
    /\ unit.pc = "call" /\ unit.fn = "parse_cache_control_max_age"
    /\ unit' = [unit EXCEPT !.pc = "returned", !.out = parse_cache_control_max_age(unit.arg)]
    /\ UNCHANGED <<calls, cache, now, dec, dcache, rcalls>>

ParseNext == parse_max_age

\* parse_cache_control_max_age alone, on every header of ParseHeaders.
SpecParse == ParseInit /\ [][ParseNext]_vars

\* The byte strings handed to ed25519_spki_der: of every length of DecodeJwks'
\* x, with bytes that are all the same or differ from place to place.
DerKeys ==
    {[i \in 1..n |-> (a * i + b) % 256] :
        n \in {0, 16} \cup 31..MaxXLen, a \in {0, 1, 3, 85, 255},
        b \in {0, 1, 48, 127, 128, 255}}

\* ed25519_spki_der is about to be called on a byte string.
DerInit ==
    /\ calls = [c \in Calls |-> IdleCall]
    /\ cache = [u \in Urls |-> NoEntry]
    /\ now = StartTime
    /\ dec = NoDec
    /\ dcache = NoDiscovery
    /\ rcalls = [c \in Calls |-> IdleResolve]
    /\ \E key \in DerKeys : unit = UnitCall("ed25519_spki_der", key, <<>>)

\* The call returns the DER bytes, or panics on the slice.
spki_der ==
    /\ unit.pc = "call" /\ unit.fn = "ed25519_spki_der"
    /\ unit' = IF ed25519_spki_der_panics(Len(unit.arg))
               THEN [unit EXCEPT !.pc = "panicked"]
               ELSE [unit EXCEPT !.pc = "returned", !.out = ed25519_spki_der(unit.arg)]
    /\ UNCHANGED <<calls, cache, now, dec, dcache, rcalls>>

DerNext == spki_der

\* ed25519_spki_der alone, on every byte string of DerKeys.
SpecDer == DerInit /\ [][DerNext]_vars

\* verify_against_jwks has been handed a token, its header, a key set and the
\* options, at some time.
VerifyInit ==
    /\ \E inp \in VerifyInputs :
          calls = [c \in Calls |->
              IF c \in SeqCalls
              THEN [IdleCall EXCEPT !.pc = "verify", !.token = inp[1],
                                    !.header = decode_header(inp[1]).header,
                                    !.source = SrcSet(inp[2]), !.keys = inp[2],
                                    !.opts = inp[3]]
              ELSE IdleCall]
    /\ cache = [u \in Urls |-> NoEntry]
    /\ now \in StartTime..MaxTime
    /\ dec = NoDec
    /\ dcache = NoDiscovery
    /\ rcalls = [c \in Calls |-> IdleResolve]
    /\ unit = NoUnit

VerifyNext ==
    \E c \in SeqCalls :
        \/ select_candidates(c)
        \/ trial_step(c)
        \/ trial_end(c)

\* verify_against_jwks alone, on every input of VerifyInputs.
SpecVerify == VerifyInit /\ [][VerifyNext]_vars

\* The JWKs handed to decoding_key_from_jwk alone: every kty the code tells
\* apart and one it does not, each material field absent, base64url or not
\* base64url, and for x every decoded length up to MaxXLen.
DecodeJwks ==
    {Jwk(kty, NoneS, n, e, crv, x, y, xlen) :
        kty \in {"RSA", "EC", "OKP", "oct"},
        n \in {NoneS, SomeS("A")}, e \in {NoneS, SomeS("AQAB"), SomeS("!")},
        crv \in {NoneS, SomeS("Ed25519"), SomeS("X25519")},
        x \in {NoneS, SomeS("A"), SomeS("!")}, y \in {NoneS, SomeS("A")},
        xlen \in {0, 16} \cup 31..MaxXLen}

\* decoding_key_from_jwk is about to be called on a JWK.
DecodeInit ==
    /\ calls = [c \in Calls |-> IdleCall]
    /\ cache = [u \in Urls |-> NoEntry]
    /\ now = StartTime
    /\ \E jwk \in DecodeJwks : dec = [pc |-> "call", jwk |-> jwk, key |-> KeyErr("")]
    /\ dcache = NoDiscovery
    /\ rcalls = [c \in Calls |-> IdleResolve]
    /\ unit = NoUnit

\* The call returns a key handle or an error, or panics.
decode_key ==
    /\ dec.pc = "call"
    /\ LET key == decoding_key_from_jwk(dec.jwk)
       IN  dec' = [dec EXCEPT !.pc = IF key.out = "panic" THEN "panicked" ELSE "returned",
                              !.key = key]
    /\ UNCHANGED <<calls, cache, now, dcache, rcalls, unit>>

DecodeNext == decode_key

\* decoding_key_from_jwk alone, on every JWK of DecodeJwks.
SpecDecode == DecodeInit /\ [][DecodeNext]_vars

\* ------------------------------------------------- what the claims speak of

\* The JWK is a usable public key of the key pair that signed the token, of
\* the family of the header's algorithm.
VerifiesSignature(jwk, token) ==
    \/ /\ jwk.kty = "RSA" /\ token.alg = "RS256"
       /\ jwk.n = SomeS(token.signer) /\ jwk.e.some /\ jwk.e.v # "!"
    \/ /\ jwk.kty = "EC" /\ token.alg = "ES256"
       /\ jwk.x = SomeS(token.signer) /\ jwk.y.some /\ jwk.y.v # "!"
    \/ /\ jwk.kty = "OKP" /\ token.alg = "EdDSA" /\ jwk.crv = SomeS("Ed25519")
       /\ jwk.x = SomeS(token.signer) /\ jwk.xlen >= 32

\* The JWK decodes to a key handle.
Decodable(jwk) ==
    \/ jwk.kty = "RSA" /\ jwk.n.some /\ jwk.e.some /\ jwk.n.v # "!" /\ jwk.e.v # "!"
    \/ jwk.kty = "EC" /\ jwk.x.some /\ jwk.y.some /\ jwk.x.v # "!" /\ jwk.y.v # "!"
    \/ /\ jwk.kty = "OKP" /\ jwk.crv = SomeS("Ed25519")
       /\ jwk.x.some /\ jwk.x.v # "!" /\ jwk.xlen >= 32

\* exp is there and not before t - leeway; nbf, when there, not after t + leeway.
TimeValid(token, leeway, t) ==
    /\ token.exp.some
    /\ token.exp.v >= t - leeway
    /\ token.nbf.some => token.nbf.v <= t + leeway

\* iss is a string equal to the configured issuer, character by character.
IssuerMatches(token, opts) ==
    /\ token.iss.t = "str"
    /\ Len(token.iss.s) = Len(opts.issuer.v)
    /\ \A i \in 1..Len(token.iss.s) : token.iss.s[i] = opts.issuer.v[i]

\* aud is the expected string, or an array with it as a string element.
AudienceMatches(token, opts) ==
    \/ token.aud.t = "str" /\ token.aud.s = opts.audience.v
    \/ /\ token.aud.t = "arr"
       /\ \E i \in 1..Len(token.aud.a) :
             token.aud.a[i].t = "str" /\ token.aud.a[i].s = opts.audience.v

IssuerHolds(token, opts) == opts.issuer.some => IssuerMatches(token, opts)
AudienceHolds(token, opts) == opts.audience.some => AudienceMatches(token, opts)

\* The call has left verify_with_source's head.
Started(call) == call.pc # "idle"

\* The call is over: it returned, or it panicked.
Over(call) == call.pc \in {"done", "panicked"}

AlgDisallowed(call) == call.token.wf /\ call.token.alg \notin call.opts.allowed_algs

\* The positions of the keys whose kid is the header's.
SameKid(call) ==
    {i \in 1..Len(call.keys) :
        call.header.kid.some /\ call.keys[i].kid = SomeS(call.header.kid.v)}

Range(seq) == {seq[i] : i \in 1..Len(seq)}
Increasing(seq) == \A i, j \in 1..Len(seq) : i < j => seq[i] < seq[j]

\* ------------------------------------------------------------------- claims

\* C1: a call whose header algorithm is not in allowed_algs returns
\* UnsupportedAlg (naming that algorithm), whatever source, key set and
\* signature it came with.
C1_UnsupportedAlg ==
    \A c \in Calls :
        Started(calls[c]) /\ AlgDisallowed(calls[c]) =>
            /\ calls[c].pc = "done"
            /\ calls[c].res = Res("UnsupportedAlg", calls[c].token.alg)

\* A disallowed algorithm was refused although a key of the supplied set
\* verifies the token.
C1_Witness ==
    \E c \in Calls :
        LET call == calls[c]
        IN  /\ call.pc = "done" /\ call.res.kind = "UnsupportedAlg"
            /\ call.source.kind = "Set"
            /\ \E i \in 1..Len(call.source.set) :
                  VerifiesSignature(call.source.set[i], call.token)
            /\ TimeValid(call.token, call.opts.leeway_seconds, now)

\* C2: a call returns Ok only if the algorithm was allowed, the kid gate
\* passed, a key of the resolved key set verified the signature with exp and
\* nbf valid within leeway when it was checked, and the configured issuer and
\* audience matched.
C2_AllOrNothing ==
    \A c \in Calls :
        LET call == calls[c]
        IN  call.res.kind = "Ok" =>
              /\ call.pc = "done"
              /\ call.token.wf
              /\ call.token.alg \in call.opts.allowed_algs
              /\ call.opts.require_kid => call.token.kid.some /\ call.token.kid.v # ""
              /\ call.source.kind = "Set" => call.keys = call.source.set
              /\ call.winner \in 1..Len(call.keys)
              /\ VerifiesSignature(call.keys[call.winner], call.token)
              /\ TimeValid(call.token, call.opts.leeway_seconds, call.t_dec)
              /\ IssuerHolds(call.token, call.opts)
              /\ AudienceHolds(call.token, call.opts)

\* A call on a Url source with issuer, audience and require_kid configured
\* succeeded.
C2_Witness ==
    \E c \in Calls :
        LET call == calls[c]
        IN  /\ call.res.kind = "Ok"
            /\ call.source.kind = "Url"
            /\ call.opts.issuer.some /\ call.opts.audience.some /\ call.opts.require_kid

\* C3: a call whose header algorithm is not allowed never reaches load_jwks:
\* it reads no cache, sends no GET, writes no cache, parses no key set and
\* holds no key set.
C3_GateBeforeLookup ==
    \A c \in Calls :
        LET call == calls[c]
        IN  Started(call) /\ AlgDisallowed(call) =>
              /\ call.pc \notin {"load", "fetch", "verify", "trial"}
              /\ call.cache_reads = 0 /\ call.fetches = 0
              /\ call.cache_writes = 0 /\ call.parses = 0
              /\ call.keys = <<>>

\* A disallowed algorithm was refused on a Url source whose cache entry is
\* fresh.
C3_Witness ==
    \E c \in Calls :
        LET call == calls[c]
        IN  /\ call.pc = "done" /\ call.res.kind = "UnsupportedAlg"
            /\ call.source.kind = "Url"
            /\ cache[call.source.url].present
            /\ cache[call.source.url].exp_at_ms > now * MsPerSec

\* exp is earlier than t - leeway, or nbf later than t + leeway.
OutOfTime(token, leeway, t) ==
    \/ token.exp.some /\ token.exp.v < t - leeway
    \/ token.nbf.some /\ token.nbf.v > t + leeway

\* C4: a token whose exp is earlier than now - leeway, or whose nbf is later
\* than now + leeway, is never accepted, and the call that verifies it ends
\* with a Validation error once a candidate has decoded to a key handle.
C4_ExpiryEnforced ==
    \A c \in Calls :
        LET call == calls[c]
        IN  Over(call) /\ OutOfTime(call.token, call.opts.leeway_seconds, now) =>
              /\ call.res.kind # "Ok"
              /\ call.tried # <<>> => call.res.kind = "Validation"

\* C5: with an issuer configured, a token a candidate verified is accepted
\* only if iss is a string equal to it character by character, and fails
\* with a Validation error about iss otherwise; without one, iss plays no
\* part in the result.
C5_IssuerExact ==
    \A c \in Calls :
        LET call == calls[c]
        IN  call.pc = "done" /\ call.winner # 0 =>
              /\ call.opts.issuer.some /\ ~IssuerMatches(call.token, call.opts) =>
                    /\ call.res.kind = "Validation"
                    /\ call.res.msg \in {"missing iss", "issuer mismatch"}
              /\ ~call.opts.issuer.some \/ IssuerMatches(call.token, call.opts) =>
                    (call.res.kind = "Ok" <=> AudienceHolds(call.token, call.opts))

\* The configured issuer ends in a slash, the token's iss is the same without
\* it, and the verified token was refused for it.
C5_Witness ==
    \E c \in Calls :
        LET call == calls[c]
        IN  /\ call.pc = "done" /\ call.winner # 0
            /\ call.opts.issuer = SomeQ(IssSlash) /\ call.token.iss = JStr(IssBare)
            /\ call.res = Res("Validation", "issuer mismatch")

\* C6: with an audience configured, a token a candidate verified is accepted
\* only if aud is that string or an array holding it as a string; a missing
\* aud, another string, an array without it and any other type fail with a
\* Validation error (the audience error, when the issuer check passed).
C6_Audience ==
    \A c \in Calls :
        LET call == calls[c]
        IN  call.pc = "done" /\ call.winner # 0 /\ call.opts.audience.some =>
              /\ call.res.kind = "Ok" => AudienceMatches(call.token, call.opts)
              /\ ~AudienceMatches(call.token, call.opts) => call.res.kind = "Validation"
              /\ ~AudienceMatches(call.token, call.opts) /\ IssuerHolds(call.token, call.opts) =>
                    call.res.msg = (IF call.token.aud.t = "absent" THEN "missing aud"
                                    ELSE "audience mismatch")
              /\ AudienceMatches(call.token, call.opts) /\ IssuerHolds(call.token, call.opts) =>
                    call.res.kind = "Ok"

\* An array aud with the expected audience as its second element was accepted.
C6_Witness ==
    \E c \in Calls :
        LET call == calls[c]
        IN  /\ call.res.kind = "Ok" /\ call.opts.audience = SomeQ(AudApi)
            /\ call.token.aud = JArr(<<JStr(AudOther), JStr(AudApi)>>)

\* C7: when the header has a kid and some key of the set has it, the
\* candidates are exactly the keys with that kid, in key-set order, and no
\* other key is decoded or tried.
C7_KidCandidates ==
    \A c \in Calls :
        LET call == calls[c]
        IN  call.pc \in {"trial", "done", "panicked"} /\ SameKid(call) # {} =>
              /\ Range(call.cands) = SameKid(call)
              /\ Increasing(call.cands)
              /\ Range(call.decoded) \subseteq SameKid(call)
              /\ Range(call.tried) \subseteq SameKid(call)

\* Two keys share the header's kid, a key with another kid or none stands
\* between them, and the call went through both and nothing else.
C7_Witness ==
    \E c \in Calls :
        LET call == calls[c]
        IN  /\ Over(call) /\ Len(call.keys) = 3
            /\ SameKid(call) = {1, 3}
            /\ call.decoded = <<1, 3>>

\* C8: when the header has no kid, or no key has the header's kid, the
\* candidates are the whole key set in order, and a token that some key of
\* the set verifies (in time, issuer and audience matching) is accepted.
C8_FallbackToAll ==
    \A c \in Calls :
        LET call == calls[c]
        IN  Over(call) /\ SameKid(call) = {} =>
              /\ call.cands = [i \in 1..Len(call.keys) |-> i]
              /\ (/\ \E i \in 1..Len(call.keys) : VerifiesSignature(call.keys[i], call.token)
                  /\ TimeValid(call.token, call.opts.leeway_seconds, now)
                  /\ IssuerHolds(call.token, call.opts)
                  /\ AudienceHolds(call.token, call.opts))
                 => call.res.kind = "Ok"

\* The header is {alg RS256, kid k1} and the key set is a single key with
\* kid k2.
OnlyOtherKid(call) ==
    /\ call.header.alg = "RS256" /\ call.header.kid = SomeS("k1")
    /\ Len(call.keys) = 1 /\ call.keys[1].kid = SomeS("k2")

Accepts(jwk, token, leeway, t) ==
    VerifiesSignature(jwk, token) /\ TimeValid(token, leeway, t)

\* C10: the loop takes the candidates in key-set order and ends at the first
\* one that verifies: every candidate before it failed, none after it is
\* decoded or tried, and the result is the one made from it.
C10_FirstSuccessWins ==
    \A c \in Calls :
        LET call == calls[c]
            n == Len(call.decoded)
        IN  /\ call.pc \in {"trial", "done", "panicked"} =>
                 /\ n <= Len(call.cands)
                 /\ call.decoded = SubSeq(call.cands, 1, n)
                 /\ Increasing(call.cands)
            /\ call.winner # 0 =>
                 /\ call.pc = "done"
                 /\ call.decoded[n] = call.winner
                 /\ call.tried[Len(call.tried)] = call.winner
                 /\ Accepts(call.keys[call.winner], call.token, call.opts.leeway_seconds, now)
                 /\ \A j \in 1..(n - 1) :
                       ~Accepts(call.keys[call.decoded[j]], call.token,
                                call.opts.leeway_seconds, now)
                 /\ call.res.kind = "Ok" <=>
                       IssuerHolds(call.token, call.opts) /\ AudienceHolds(call.token, call.opts)
                 /\ call.res.kind \in {"Ok", "Validation"}

\* The first of several candidates verified; the next one, which verifies
\* too, was never decoded.
C10_Witness ==
    \E c \in Calls :
        LET call == calls[c]
        IN  /\ call.res.kind = "Ok" /\ Len(call.cands) >= 2
            /\ call.winner = call.cands[1] /\ call.decoded = <<call.winner>>
            /\ VerifiesSignature(call.keys[call.cands[2]], call.token)

\* Some candidate verifies the token now, and issuer and audience match.
HasGoodCandidate(call) ==
    /\ \E i \in 1..Len(call.cands) :
          Accepts(call.keys[call.cands[i]], call.token, call.opts.leeway_seconds, now)
    /\ IssuerHolds(call.token, call.opts)
    /\ AudienceHolds(call.token, call.opts)

\* C11: a candidate that does not decode to a key handle is skipped and
\* never aborts the call: a call whose candidates include a key that verifies
\* the token ends in Ok, whatever undecodable keys come before that key.
C11_BadKeySkipped ==
    \A c \in Calls :
        LET call == calls[c]
        IN  /\ call.pc # "panicked"
            /\ Over(call) /\ HasGoodCandidate(call) => call.res.kind = "Ok"

\* C12: decoding_key_from_jwk ends, for every JWK, with a key handle or an
\* error and never panics, and an OKP/Ed25519 JWK whose x decodes to a byte
\* string of a length other than 32 ends with an error.
C12_DecoderTotal ==
    dec.pc \in {"returned", "panicked"} =>
        /\ dec.pc = "returned" /\ dec.key.out \in {"ok", "err"}
        /\ (/\ dec.jwk.kty = "OKP" /\ dec.jwk.crv = SomeS("Ed25519")
            /\ dec.jwk.x.some /\ dec.jwk.x.v # "!" /\ dec.jwk.xlen # 32)
           => dec.key.out = "err"

\* What the check of the token against the JWK at time t fails with ("Ok"
\* when it passes).
CheckResult(jwk, token, leeway, t) ==
    IF ~VerifiesSignature(jwk, token)
    THEN (IF \/ jwk.kty = "RSA" /\ token.alg = "RS256"
             \/ jwk.kty = "EC" /\ token.alg = "ES256"
             \/ jwk.kty = "OKP" /\ token.alg = "EdDSA"
          THEN "InvalidSignature" ELSE "InvalidAlgorithm")
    ELSE IF ~token.exp.some THEN "MissingRequiredClaim"
    ELSE IF token.exp.v < t - leeway THEN "ExpiredSignature"
    ELSE IF token.nbf.some /\ token.nbf.v > t + leeway THEN "ImmatureSignature"
    ELSE "Ok"

\* C13: when no candidate verifies, a call that attempted a signature check
\* returns a Validation error carrying the error of the last candidate it
\* checked, and a call with no candidate returns NoMatchingKey.
C13_LastError ==
    \A c \in Calls :
        LET call == calls[c]
            last == call.tried[Len(call.tried)]
        IN  Over(call) /\ call.winner = 0 =>
              /\ call.tried # <<>> =>
                    call.res = Res("Validation",
                                   CheckResult(call.keys[last], call.token,
                                               call.opts.leeway_seconds, now))
              /\ call.cands = <<>> => call.res = Res("NoMatchingKey", "")

\* The header of the token does not decode.
HeaderUndecodable(call) == ~call.token.wf

\* The call resolved no key set: it read no cache, sent no GET, wrote no
\* cache, parsed no document and holds no key set.
NoResolution(call) ==
    /\ call.pc \notin {"load", "fetch", "verify", "trial"}
    /\ call.cache_reads = 0 /\ call.fetches = 0
    /\ call.cache_writes = 0 /\ call.parses = 0
    /\ call.keys = <<>>

\* C14: a call on a token whose header does not decode returns InvalidJwt
\* (failed to decode header) at once, whatever the gates would say, and
\* resolves no key set.
C14_HeaderFirst ==
    \A c \in Calls :
        LET call == calls[c]
        IN  Started(call) /\ HeaderUndecodable(call) =>
              /\ call.pc = "done"
              /\ call.res = Res("InvalidJwt", "failed to decode header")
              /\ NoResolution(call)

\* A token whose header does not decode was refused by verify_with_jwks_url
\* with require_kid set and a fresh cache entry for the URL.
C14_Witness ==
    \E c \in Calls :
        LET call == calls[c]
        IN  /\ call.pc = "done" /\ HeaderUndecodable(call)
            /\ call.res.kind = "InvalidJwt"
            /\ call.opts.require_kid
            /\ call.source.kind = "Url" /\ call.source.url = call.opts.jwks_url
            /\ cache[call.source.url].present
            /\ cache[call.source.url].exp_at_ms > now * MsPerSec

\* The header's kid is absent or the empty string.
KidAbsentOrEmpty(call) == ~call.token.kid.some \/ call.token.kid.v = ""

\* C15: with require_kid set, a call whose header has an allowed algorithm
\* and no kid, or an empty kid, returns InvalidJwt (missing kid) and resolves
\* no key set; with a disallowed algorithm as well it returns UnsupportedAlg;
\* without require_kid no call returns the missing-kid error.
C15_KidGate ==
    \A c \in Calls :
        LET call == calls[c]
        IN  /\ (/\ Started(call) /\ call.token.wf /\ call.opts.require_kid
                /\ KidAbsentOrEmpty(call)) =>
                   /\ call.pc = "done"
                   /\ NoResolution(call)
                   /\ call.res = (IF call.token.alg \in call.opts.allowed_algs
                                  THEN Res("InvalidJwt", "missing kid")
                                  ELSE Res("UnsupportedAlg", call.token.alg))
            /\ call.res = Res("InvalidJwt", "missing kid") =>
                   call.opts.require_kid /\ KidAbsentOrEmpty(call)

\* With require_kid set, a header whose kid is the empty string was refused
\* for its missing kid.
C15_Witness ==
    \E c \in Calls :
        LET call == calls[c]
        IN  /\ call.pc = "done" /\ call.res = Res("InvalidJwt", "missing kid")
            /\ call.token.kid = SomeS("")
            /\ call.token.alg \in call.opts.allowed_algs

\* The call is on a Url source.
OnUrl(call) == call.source.kind = "Url"

\* The cache holds an entry for the URL and the clock is before its expiry.
EntryFresh(u) == cache[u].present /\ now * MsPerSec < cache[u].exp_at_ms

\* This step is call c going through load_jwks's cache lookup.
LookupStep(c) == calls[c].pc = "load" /\ calls'[c].pc # "load" /\ OnUrl(calls[c])

\* This step is call c receiving the outcome of its GET.
FetchStep(c) == calls[c].pc = "fetch" /\ calls'[c].pc # "fetch"

\* The key set a JWKS document holds.
KeysOfBody(doc) == [i \in 1..Len(doc.keys) |-> [doc.keys[i] EXCEPT !.kty = doc.keys[i].kty.v]]

\* The fetch failed: send failed or timed out, the status is not 2xx, the
\* body could not be read or is no JWKS document.
BadResponse(r) ==
    \/ r.net # "ok"
    \/ r.status < 200 \/ r.status > 299
    \/ ~r.body.wf
    \/ \E i \in 1..Len(r.body.keys) : ~r.body.keys[i].kty.some

\* C16: a call on a Url source that finds an entry for that URL with the
\* clock before its expiry goes on with exactly the key set of the entry,
\* sends no GET and leaves the cache as it is, to the end of the call.
C16_CacheHit ==
    [][\A c \in Calls :
          LET call == calls[c]
              u == call.source.url
          IN  /\ LookupStep(c) /\ EntryFresh(u) =>
                    /\ calls'[c].pc = "verify"
                    /\ calls'[c].keys = cache[u].jwks
                    /\ calls'[c].fetches = 0
                    /\ cache' = cache
              /\ OnUrl(call) /\ call.pc \in {"verify", "trial", "done"} /\ call.fetches = 0 =>
                    /\ cache' = cache
                    /\ calls'[c].fetches = 0
                    /\ calls'[c].pc # "idle" => calls'[c].keys = call.keys]_vars

\* A call on one URL went on without a GET, holding the key set cached for
\* that URL, while the other URL has a fresh entry with another key set.
C16_Witness ==
    \E c \in Calls :
        LET call == calls[c]
            u == call.source.url
        IN  /\ OnUrl(call) /\ call.pc = "done" /\ call.res.kind = "Ok"
            /\ call.cache_reads = 1 /\ call.fetches = 0
            /\ call.keys = cache[u].jwks
            /\ \E v \in Urls \ {u} : EntryFresh(v) /\ cache[v].jwks # cache[u].jwks

\* C17: a call on a Url source that finds no entry for that URL, or one
\* whose expiry is not after the clock, sends one GET and no more; when the
\* GET brings a JWKS document, the entry of that URL (and no other) is
\* replaced by the key set of the document, which the call goes on with.
C17_CacheMiss ==
    [][\A c \in Calls :
          LET call == calls[c]
              u == call.source.url
              r == calls'[c].resp
          IN  /\ LookupStep(c) /\ ~EntryFresh(u) =>
                    /\ calls'[c].pc = "fetch"
                    /\ calls'[c].fetches = 1
                    /\ cache' = cache
              /\ FetchStep(c) =>
                    /\ calls'[c].fetches = 1
                    /\ ~BadResponse(r) =>
                          /\ calls'[c].pc = "verify"
                          /\ calls'[c].keys = KeysOfBody(r.body)
                          /\ cache'[u].present /\ cache'[u].jwks = KeysOfBody(r.body)
                          /\ \A v \in Urls \ {u} : cache'[v] = cache[v]
              /\ call.pc \in {"verify", "trial", "done"} /\ call.fetches = 1 =>
                    (calls'[c].pc = "idle" \/ calls'[c].fetches = 1)]_vars

\* A call found an entry that had been fresh and whose expiry instant is now
\* the clock exactly, and sent its GET.
C17_Witness ==
    \E c \in Calls :
        LET call == calls[c]
            u == call.source.url
        IN  /\ OnUrl(call) /\ call.pc = "fetch" /\ call.fetches = 1
            /\ cache[u].present
            /\ cache[u].exp_at_ms = call.now_ms
            /\ cache[u].exp_at_ms > StartTime * MsPerSec

\* The max-age a Cache-Control header gives, 300 without one.
HeaderMaxAge(cc) ==
    CASE cc = NoneQ -> 300
      [] cc = SomeQ(CcNoStore) -> 300
      [] cc = SomeQ(CcMaxAge(<<"0">>)) -> 0
      [] cc = SomeQ(CcPublicMaxAge(<<"1">>)) -> 1
      [] cc = SomeQ(CcMaxAge(<<"2">>)) -> 2
      [] cc = SomeQ(CcMaxAge(<<"6", "0">>)) -> 60

\* min(m, max_jwks_age_seconds) for the response the call received.
ClaimedTtl(call) ==
    IF HeaderMaxAge(call.resp.cache_control) < call.opts.max_jwks_age_seconds
    THEN HeaderMaxAge(call.resp.cache_control)
    ELSE call.opts.max_jwks_age_seconds

\* C18: the entry a call stores expires min(m, max_jwks_age_seconds) seconds
\* after the instant the call took for now, m being the max-age of the
\* response's Cache-Control, 300 without one (no-store alone included); an
\* entry stored for max-age=0 is fresh at no time from then on.
C18_TtlIsMin ==
    \A c \in Calls :
        LET call == calls[c]
            e == cache[call.source.url]
        IN  OnUrl(call) /\ call.cache_writes = 1 =>
              /\ e.present
              /\ e.exp_at_ms = call.now_ms + ClaimedTtl(call) * 1000
              /\ HeaderMaxAge(call.resp.cache_control) = 0 => ~EntryFresh(call.source.url)

\* A response with Cache-Control: no-store was cached for 300 seconds under
\* a max_jwks_age_seconds of 600.
C18_Witness ==
    \E c \in Calls :
        LET call == calls[c]
        IN  /\ OnUrl(call) /\ call.cache_writes = 1
            /\ call.resp.cache_control = SomeQ(CcNoStore)
            /\ call.opts.max_jwks_age_seconds = 600
            /\ cache[call.source.url].exp_at_ms = call.now_ms + 300000

\* C19: the expiry instant stored with an entry is the clock at the moment
\* the entry is written plus the time-to-live.
C19_ExpiryFromWrite ==
    [][\A c \in Calls :
          FetchStep(c) /\ calls'[c].cache_writes = 1 =>
              cache'[calls[c].source.url].exp_at_ms =
                  now * MsPerSec + ClaimedTtl(calls'[c]) * 1000]_vars

\* C20: a GET that fails (send error, timeout, non-2xx status, unreadable
\* body, body that is no JWKS document) ends the call with the error and
\* leaves every entry of the cache as it was when the call began.
C20_NoErrorCached ==
    [][\A c \in Calls :
          /\ LookupStep(c) => cache' = cache
          /\ FetchStep(c) /\ BadResponse(calls'[c].resp) =>
                /\ cache' = cache
                /\ calls'[c].pc = "done"
                /\ calls'[c].res.kind \in {"Reqwest", "Jwks", "Json"}
                /\ calls'[c].cache_writes = 0]_vars

\* A GET answered 404 with a JWKS document as its body; the call failed, the
\* stale entry of its URL is still there and the other URL's entry is fresh.
C20_Witness ==
    \E c \in Calls :
        LET call == calls[c]
            u == call.source.url
        IN  /\ OnUrl(call) /\ call.pc = "done" /\ call.res.kind = "Jwks"
            /\ call.resp.status = 404 /\ call.resp.body.wf
            /\ cache[u].present /\ ~EntryFresh(u)
            /\ \E v \in Urls \ {u} : EntryFresh(v)

\* The call received the outcome of its GET and that GET failed.
FetchFailed(call) ==
    OnUrl(call) /\ call.pc \in {"verify", "trial", "done"} /\ call.fetches = 1
        /\ BadResponse(call.resp)

\* C21: no call sends more than one GET; a call whose GET fails or times
\* out ends with the acquisition error, sends no second GET and does not go
\* on with the key set of an expired entry: it verifies nothing.
C21_NoRetry ==
    \A c \in Calls :
        LET call == calls[c]
        IN  /\ call.fetches <= 1
            /\ FetchFailed(call) =>
                  /\ call.pc = "done"
                  /\ call.res.kind \in {"Reqwest", "Jwks", "Json"}
                  /\ call.keys = <<>> /\ call.decoded = <<>> /\ call.tried = <<>>
                  /\ call.cache_reads = 1 /\ call.cache_writes = 0

\* A GET timed out while the cache held an expired entry for the URL, whose
\* key set has the key of the token; the call ended with the transport error.
C21_Witness ==
    \E c \in Calls :
        LET call == calls[c]
            u == call.source.url
        IN  /\ FetchFailed(call) /\ call.resp.net = "timeout"
            /\ call.res.kind = "Reqwest"
            /\ call.seen.present /\ call.seen.exp_at_ms <= call.now_ms
            /\ cache[u] = call.seen
            /\ \E i \in 1..Len(call.seen.jwks) : call.seen.jwks[i].kid = call.header.kid

\* C22: a GET answered with a status outside 200..299 ends the call with
\* the Jwks error that carries this status; the body is not parsed, no key is
\* decoded and no signature is checked.
C22_Non2xxHardFailure ==
    \A c \in Calls :
        LET call == calls[c]
            r == call.resp
        IN  OnUrl(call) /\ call.fetches = 1 /\ call.pc # "fetch"
                /\ r.net = "ok" /\ ~(r.status \in 200..299) =>
                  /\ call.pc = "done"
                  /\ call.res = JwksFetchFailed(r.status)
                  /\ call.parses = 0
                  /\ call.keys = <<>> /\ call.decoded = <<>> /\ call.tried = <<>>

\* A GET answered 300 with a JWKS document as its body that holds the key of
\* the token; the call ended with the Jwks error carrying 300.
C22_Witness ==
    \E c \in Calls :
        LET call == calls[c]
        IN  /\ OnUrl(call) /\ call.pc = "done" /\ call.fetches = 1
            /\ call.resp.net = "ok" /\ call.resp.status = 300
            /\ call.resp.body.wf
            /\ call.res.kind = "Jwks" /\ call.res.status = 300
            /\ call.parses = 0

\* This step is call c receiving a JWKS document and writing the cache.
RefreshStep(c) == FetchStep(c) /\ calls'[c].cache_writes = 1

\* C24: a refetch replaces, it does not merge: after the write the entry of
\* the URL holds the keys of the new response, in its order and no others,
\* whatever the entry held before, and the entry of every other URL is the
\* same as before the write.
C24_RefreshSupersedes ==
    [][\A c \in Calls :
          LET u == calls[c].source.url
              r == calls'[c].resp
          IN  RefreshStep(c) =>
                /\ cache'[u].present
                /\ cache'[u].jwks = KeysOfBody(r.body)
                /\ Len(cache'[u].jwks) = Len(r.body.keys)
                /\ \A v \in Urls \ {u} : cache'[v] = cache[v]]_vars

\* A call found an expired two-key entry for its URL, fetched a document with
\* one of the two keys, and the entry now holds that key alone, while the
\* other URL's entry is present.
C24_Witness ==
    \E c \in Calls :
        LET call == calls[c]
            u == call.source.url
        IN  /\ OnUrl(call) /\ call.pc = "verify" /\ call.cache_writes = 1
            /\ call.seen.present /\ Len(call.seen.jwks) = 2
            /\ cache[u].jwks = <<K1A>> /\ call.seen.jwks = <<K2B, K1A>>
            /\ cache[u].jwks = KeysOfBody(call.resp.body)
            /\ \E v \in Urls \ {u} : cache[v].present

\* The call took its key set from the cache.
ServedFromCache(call) ==
    OnUrl(call) /\ call.pc \in {"verify", "trial", "done"}
        /\ call.cache_reads = 1 /\ call.fetches = 0

\* C25: a key set a call with max_jwks_age_seconds = M takes from the
\* cache was written to the cache (its fetch had completed) at most M seconds
\* before the call looked it up, whatever bound the storing call had.
C25_MaxAgeHonored ==
    \A c \in Calls :
        LET call == calls[c]
        IN  ServedFromCache(call) =>
               call.now_ms - call.seen.at_ms <= call.opts.max_jwks_age_seconds * MsPerSec

\* C23: with calls interleaved in every order, the entry of a URL changes
\* only in the one step in which a call stores the outcome of its GET, and is
\* then the pair of the key set of that call's response and the expiry
\* computed from that call's clock and that response; a lookup sees the whole
\* entry as it stands, and a hit takes the key set of an entry whose own
\* expiry is after the clock of the reader.
C23_EntriesWhole ==
    [][/\ \A u \in Urls :
            cache'[u] # cache[u] =>
               \E c \in Calls :
                  LET r == calls'[c].resp
                  IN  /\ RefreshStep(c) /\ calls[c].source.url = u
                      /\ cache'[u].present
                      /\ cache'[u].jwks = KeysOfBody(r.body)
                      /\ cache'[u].exp_at_ms =
                            calls[c].now_ms + ClaimedTtl(calls'[c]) * MsPerSec
       /\ \A c \in Calls :
            LookupStep(c) =>
               /\ calls'[c].seen = cache[calls[c].source.url]
               /\ calls'[c].pc = "verify" =>
                     /\ calls'[c].keys = calls'[c].seen.jwks
                     /\ calls'[c].seen.exp_at_ms > calls'[c].now_ms]_vars

\* Two calls missed on the same URL before either had stored anything, both
\* fetched, with different key sets and different expiries, and both stored;
\* the entry is the pair of the one and not of the other.
C23_Witness ==
    \E c, d \in Calls :
        LET u == calls[c].source.url
        IN  /\ c # d /\ OnUrl(calls[c]) /\ OnUrl(calls[d]) /\ calls[d].source.url = u
            /\ calls[c].cache_writes = 1 /\ calls[d].cache_writes = 1
            /\ ~calls[c].seen.present /\ ~calls[d].seen.present
            /\ calls[c].keys # calls[d].keys
            /\ cache[u].jwks = calls[d].keys
            /\ cache[u].exp_at_ms = ExpAtMs(calls[d], calls[d].resp)
            /\ cache[u].exp_at_ms # ExpAtMs(calls[c], calls[c].resp)

\* The call went through the gates of verify_with_source (header, algorithm,
\* kid) into load_jwks and is past its literal source.
PastLiteralSource(call) ==
    /\ call.source.kind \in {"Set", "Json"}
    /\ call.pc \in {"verify", "trial", "done"}
    /\ ~HeaderUndecodable(call) /\ ~AlgDisallowed(call)
    /\ ~(call.opts.require_kid /\ KidAbsentOrEmpty(call))

\* The JSON text is a JWKS document.
DocParses(doc) == doc.wf /\ \A i \in 1..Len(doc.keys) : doc.keys[i].kty.some

\* C26: a call on a Set or Json source sends no GET and neither reads nor
\* writes the JWKS cache; on Set it goes on with a key set equal to the one
\* supplied, on Json with the key set of the document, or ends with the JSON
\* parse error: whatever earlier calls left in the cache.
C26_LiteralSources ==
    \A c \in Calls :
        LET call == calls[c]
            src == call.source
        IN  /\ src.kind \in {"Set", "Json"} /\ call.pc # "idle" =>
                  /\ call.fetches = 0 /\ call.cache_reads = 0 /\ call.cache_writes = 0
                  /\ call.seen = NoEntry /\ call.resp = NoResponse
            /\ PastLiteralSource(call) /\ src.kind = "Set" =>
                  call.keys = src.set /\ call.parses = 0
            /\ PastLiteralSource(call) /\ src.kind = "Json" =>
                  /\ call.parses = 1
                  /\ DocParses(src.doc) => call.keys = KeysOfBody(src.doc)
                  /\ ~DocParses(src.doc) =>
                        call.pc = "done" /\ call.res = Res("Json", "parse") /\ call.keys = <<>>

\* A call on a Json source went on with the keys of its document while the
\* cache, filled by an earlier call, holds a fresh entry with other keys.
C26_Witness ==
    \E c \in Calls :
        LET call == calls[c]
        IN  /\ call.source.kind = "Json" /\ call.pc = "done" /\ call.res.kind = "Ok"
            /\ DocParses(call.source.doc)
            /\ call.keys = KeysOfBody(call.source.doc)
            /\ \E u \in Urls : EntryFresh(u) /\ cache[u].jwks # call.keys

\* The issuer without its trailing slashes: its longest prefix that does not
\* end in a slash.
Bare(issuer) ==
    LET ends == {k \in 0..Len(issuer) : k = 0 \/ issuer[k] # "/"}
        n == CHOOSE k \in ends : \A j \in ends : j <= k
    IN  SubSeq(issuer, 1, n)

\* C27 as stated: the discovery URL of a call is its issuer less exactly
\* one trailing slash, followed by /.well-known/openid-configuration.
C27_OneSlashStripped ==
    \A c \in Calls :
        rcalls[c].pc # "idle" =>
            rcalls[c].discovery = TrimSlash(rcalls[c].issuer) \o WellKnown

\* C27: the discovery URL of a call is its issuer less all its trailing
\* slashes, followed by /.well-known/openid-configuration, and every entry of
\* the discovery cache is stored under the URL of the bare issuer: issuers
\* that differ in their trailing slashes only share one entry.
C27_TrailingSlashesStripped ==
    /\ \A c \in Calls :
          rcalls[c].pc # "idle" =>
              /\ rcalls[c].discovery = Bare(rcalls[c].issuer) \o WellKnown
              /\ rcalls[c].cache_writes = 1 => rcalls[c].discovery \in DOMAIN dcache
    /\ \A k \in DOMAIN dcache : k = Bare(dcache[k].issuer) \o WellKnown

\* A call given the issuer with one trailing slash was answered from the
\* entry a call given it with two trailing slashes had stored.
C27_Witness ==
    \E c \in Calls :
        LET call == rcalls[c]
        IN  /\ call.pc = "done" /\ call.res.kind = "Ok" /\ call.fetches = 0
            /\ call.issuer = IssSlash
            /\ call.seen.present /\ call.seen.issuer = IssTwoSlashes
            /\ call.jwks_uri = call.seen.jwks_uri
            /\ dcache[call.discovery] = call.seen

\* This step is call c entering resolve_oidc_jwks_url and looking the
\* discovery URL up.
ResolveStep(c) == rcalls[c].pc = "idle" /\ rcalls'[c].pc # "idle"

\* This step is call c receiving the outcome of its discovery GET.
DiscoveryStep(c) == rcalls[c].pc = "fetch" /\ rcalls'[c].pc # "fetch"

\* The response came with a 2xx status and a JSON body.
DiscoveryDocReceived(r) == r.net = "ok" /\ r.status \in 200..299 /\ r.body.wf

\* min(m, max_age_seconds) for the response the call received.
ClaimedDiscoveryTtl(call) ==
    IF HeaderMaxAge(call.resp.cache_control) < call.max_age_seconds
    THEN HeaderMaxAge(call.resp.cache_control)
    ELSE call.max_age_seconds

\* C28: a call that finds an entry for its discovery URL with the clock
\* before its expiry returns the jwks_uri of the entry and sends no GET;
\* otherwise it sends one GET and no more, and when the document has a string
\* jwks_uri, stores it under the discovery URL (no other key changes) with
\* expiry now + min(m, max_age_seconds), now being the instant the call took
\* for its lookup and m the response's max-age or 300, and returns it; a
\* document without a string jwks_uri, like every failed GET, ends the call
\* with an error (Jwks for the missing jwks_uri) and leaves the discovery
\* cache as it was.  No step of a discovery call changes the JWKS cache and no
\* step of a verification call changes the discovery cache.
C28_DiscoveryDiscipline ==
    [][/\ \A c \in Calls :
            LET call == rcalls'[c]
                k == call.discovery
                e == DiscoveryGet(dcache, k)
                r == call.resp
            IN  /\ ResolveStep(c) =>
                      /\ dcache' = dcache
                      /\ call.seen = e
                      /\ IF e.present /\ now * MsPerSec < e.exp_at_ms
                         THEN /\ call.pc = "done" /\ call.res.kind = "Ok"
                              /\ call.jwks_uri = e.jwks_uri
                              /\ call.fetches = 0
                         ELSE call.pc = "fetch" /\ call.fetches = 1
                /\ DiscoveryStep(c) =>
                      /\ call.pc = "done" /\ call.fetches = 1
                      /\ IF DiscoveryDocReceived(r) /\ r.body.jwks_uri.t = "str"
                         THEN /\ call.res.kind = "Ok"
                              /\ call.jwks_uri = r.body.jwks_uri.s
                              /\ k \in DOMAIN dcache'
                              /\ dcache'[k].jwks_uri = r.body.jwks_uri.s
                              /\ dcache'[k].exp_at_ms =
                                    rcalls[c].now_ms + ClaimedDiscoveryTtl(call) * MsPerSec
                              /\ \A j \in DOMAIN dcache' \ {k} :
                                    j \in DOMAIN dcache /\ dcache'[j] = dcache[j]
                         ELSE /\ dcache' = dcache
                              /\ call.res.kind \in {"Reqwest", "Jwks", "Json"}
                              /\ DiscoveryDocReceived(r) =>
                                    call.res = Res("Jwks", "OIDC discovery missing jwks_uri")
       /\ rcalls' # rcalls => cache' = cache
       /\ calls' # calls => dcache' = dcache]_vars

\* A call found the entry of its discovery URL at its expiry instant exactly,
\* fetched a document naming another jwks_uri and stored it, while the JWKS
\* cache holds an entry.
C28_Witness ==
    \E c \in Calls :
        LET call == rcalls[c]
        IN  /\ call.pc = "done" /\ call.res.kind = "Ok" /\ call.cache_writes = 1
            /\ call.seen.present /\ call.seen.exp_at_ms = call.now_ms
            /\ call.seen.jwks_uri # call.jwks_uri
            /\ dcache[call.discovery].jwks_uri = call.jwks_uri
            /\ \E u \in Urls : cache[u].present

\* The integer a directive gives as max-age=<integer>, none for any other
\* directive.
DirectiveMaxAge(d) ==
    CASE d = CcMaxAge(<<"5">>) -> SomeI(5)
      [] d = CcMaxAge(<<"6", "0">>) -> SomeI(60)
      [] d = CcMaxAge(<<"0">>) -> SomeI(0)
      [] d = CcMaxAge(<<"0", "0", "7">>) -> SomeI(7)
      [] d = CcMaxAge(<<"+", "4">>) -> SomeI(4)
      [] d = CcMaxAge(<<" ", "7", " ">>) -> SomeI(7)
      [] OTHER -> NoneI

\* The directive is a max-age directive, well formed or not.
IsMaxAgeDirective(d) == Len(d) >= Len(MaxAgePrefix) /\ SubSeq(d, 1, Len(MaxAgePrefix)) = MaxAgePrefix

\* The least of a set of positions.
First(S) == CHOOSE i \in S : \A j \in S : i <= j

\* The parser has returned from a header.
ParserReturned == unit.fn = "parse_cache_control_max_age" /\ unit.pc = "returned"

\* C29 as stated: the first max-age directive of the header decides: the
\* parser returns its integer, and None when it is malformed or when the
\* header has no max-age directive.
C29_FirstMaxAgeDirectiveDecides ==
    ParserReturned =>
        LET S == {i \in 1..Len(unit.parts) : IsMaxAgeDirective(unit.parts[i])}
        IN  unit.out = IF S = {} THEN NoneI ELSE DirectiveMaxAge(unit.parts[First(S)])

\* C29: the parser returns the integer of the first directive that is
\* max-age=<integer>, passing over the max-age directives whose value is no
\* integer, and None when the header has no directive of that form.
C29_FirstWellFormedMaxAge ==
    ParserReturned =>
        LET S == {i \in 1..Len(unit.parts) : DirectiveMaxAge(unit.parts[i]).some}
        IN  unit.out = IF S = {} THEN NoneI ELSE DirectiveMaxAge(unit.parts[First(S)])

\* The parser returned 5 from "max-age=abc, max-age=5".
C29_Witness ==
    /\ ParserReturned
    /\ unit.parts = <<CcMaxAge(<<"a", "b", "c">>), CcMaxAge(<<"5">>)>>
    /\ unit.arg = CcMaxAge(<<"a", "b", "c">>) \o <<",", " ">> \o CcMaxAge(<<"5">>)
    /\ unit.out = SomeI(5)

\* ed25519_spki_der was called on a 32-byte key and the call is over.
DerOfKey == unit.fn = "ed25519_spki_der" /\ unit.pc # "call" /\ Len(unit.arg) = 32

\* C30: on a 32-byte key ed25519_spki_der returns 44 bytes: 30 2A, then
\* 30 05 06 03 2B 65 70, then 03 21 00, then the 32 bytes of the key, each in
\* its place.
C30_SpkiLayout ==
    DerOfKey =>
        /\ unit.pc = "returned"
        /\ Len(unit.out) = 44
        /\ unit.out[1] = 48 /\ unit.out[2] = 42
        /\ SubSeq(unit.out, 3, 9) = <<48, 5, 6, 3, 43, 101, 112>>
        /\ SubSeq(unit.out, 10, 12) = <<3, 33, 0>>
        /\ \A i \in 1..32 : unit.out[12 + i] = unit.arg[i]

\* The wrapper of a 32-byte key whose bytes are all different.
C30_Witness ==
    /\ DerOfKey /\ unit.pc = "returned" /\ Len(unit.out) = 44
    /\ \A i, j \in 1..32 : i # j => unit.arg[i] # unit.arg[j]
    /\ unit.arg[1] = 255 /\ unit.out[13] = 255 /\ unit.out[44] = unit.arg[32]

\* The fields the kty of a JWK requires are all present.
RequiredFieldsPresent(jwk) ==
    CASE jwk.kty = "RSA" -> jwk.n.some /\ jwk.e.some
      [] jwk.kty = "EC" -> jwk.x.some /\ jwk.y.some
      [] jwk.kty = "OKP" -> jwk.crv = SomeS("Ed25519") /\ jwk.x.some
      [] OTHER -> FALSE

\* The Jwks message the decoder gives a JWK that lacks a required field
\* (no message when no field is lacking).
ClaimedKeyError(jwk) ==
    CASE jwk.kty = "RSA" /\ ~jwk.n.some -> {"RSA JWK missing n"}
      [] jwk.kty = "RSA" /\ ~jwk.e.some -> {"RSA JWK missing e"}
      [] jwk.kty = "EC" /\ ~jwk.x.some -> {"EC JWK missing x"}
      [] jwk.kty = "EC" /\ ~jwk.y.some -> {"EC JWK missing y"}
      [] jwk.kty = "OKP" /\ jwk.crv # SomeS("Ed25519") -> {"unsupported OKP curve"}
      [] jwk.kty = "OKP" /\ ~jwk.x.some -> {"OKP JWK missing x"}
      [] jwk.kty \notin {"RSA", "EC", "OKP"} -> {"unsupported kty"}
      [] OTHER -> {}

\* C31: decoding_key_from_jwk returns a Jwks error for an RSA key without n
\* or e, an EC key without x or y, an OKP key whose crv is absent or not
\* Ed25519, an OKP key without x and every other kty, and returns a key handle
\* only for a JWK that has every field its kty requires.
C31_JwksErrorByKeyType ==
    dec.pc \in {"returned", "panicked"} =>
        /\ ~RequiredFieldsPresent(dec.jwk) =>
              /\ dec.pc = "returned"
              /\ dec.key.out = "err" /\ dec.key.kind = "Jwks"
              /\ dec.key.msg \in ClaimedKeyError(dec.jwk)
        /\ dec.key.out = "ok" => RequiredFieldsPresent(dec.jwk)

\* An OKP key without crv, with x, has been refused.
C31_Witness ==
    /\ dec.pc = "returned"
    /\ dec.jwk.kty = "OKP" /\ ~dec.jwk.crv.some /\ dec.jwk.x.some
    /\ dec.key.out = "err" /\ dec.key.kind = "Jwks"

\* The messages of the issuer check, or of the audience check when the issuer
\* holds.
IssuerAudienceErrors(token, opts) ==
    IF ~IssuerHolds(token, opts) THEN {"missing iss", "issuer mismatch"}
    ELSE IF ~AudienceHolds(token, opts) THEN {"missing aud", "audience mismatch"}
    ELSE {}

\* C34: the issuer and audience check runs only on the first candidate that
\* verifies the token, and its failure ends the call: the call returns the
\* issuer or audience Validation error at that candidate, no later candidate
\* is decoded or tried, and the error is not an earlier candidate's signature
\* error.
C34_ValidationFailureTerminal ==
    \A c \in Calls :
        LET call == calls[c]
            n == Len(call.decoded)
            AnyError == {"missing iss", "issuer mismatch", "missing aud", "audience mismatch"}
        IN  /\ (/\ call.winner # 0
                /\ ~(IssuerHolds(call.token, call.opts) /\ AudienceHolds(call.token, call.opts)))
               => /\ call.pc = "done"
                  /\ call.res.kind = "Validation"
                  /\ call.res.msg \in IssuerAudienceErrors(call.token, call.opts)
                  /\ call.res.msg # call.last_err
                  /\ call.decoded[n] = call.winner
                  /\ call.tried[Len(call.tried)] = call.winner
            /\ Over(call) /\ call.res.msg \in AnyError
               => /\ call.winner # 0
                  /\ \A j \in 1..(n - 1) :
                        ~Accepts(call.keys[call.decoded[j]], call.token,
                                 call.opts.leeway_seconds, now)

\* A call whose first candidate failed the signature check and whose second
\* verified ended in the issuer error, with a third candidate left untried.
C34_Witness ==
    \E c \in Calls :
        LET call == calls[c]
        IN  /\ call.pc = "done" /\ Len(call.cands) = 3
            /\ call.tried = SubSeq(call.cands, 1, 2)
            /\ call.last_err = "InvalidSignature"
            /\ call.winner = call.cands[2]
            /\ call.res = Res("Validation", "issuer mismatch")

\* C35: a call of verify_against_jwks ends in NoMatchingKey exactly when it
\* attempted no signature check (the key set is empty, or no candidate decoded
\* to a key handle), and a call that attempted one with no success ends in a
\* Validation error.
C35_NoMatchingKeyIffNoAttempt ==
    \A c \in Calls :
        LET call == calls[c]
        IN  Over(call) =>
              /\ call.res.kind = "NoMatchingKey" <=> call.tried = <<>>
              /\ call.tried # <<>> /\ call.winner = 0 => call.res.kind = "Validation"

\* The kinds of error that say the key set could not be acquired, and the
\* kinds that say the token was refused.
AcquisitionKinds == {"Jwks", "Reqwest", "Json"}
TokenKinds == {"InvalidJwt", "UnsupportedAlg", "NoMatchingKey", "Validation"}

\* A gate of verify_with_source refuses the token of the call.
GateRefuses(call) ==
    \/ HeaderUndecodable(call)
    \/ AlgDisallowed(call)
    \/ call.opts.require_kid /\ KidAbsentOrEmpty(call)

\* The call is over with an error because its key set could not be acquired:
\* its GET failed, or its JSON source is no JWKS document.
AcquisitionFailure(call) ==
    /\ call.pc = "done" /\ ~GateRefuses(call)
    /\ \/ call.source.kind = "Url" /\ call.fetches = 1 /\ BadResponse(call.resp)
       \/ call.source.kind = "Json" /\ ~DocParses(call.source.doc)

\* The call is over with an error because of its token: a gate refused it, or
\* the key set was acquired and verification failed.
TokenFailure(call) ==
    /\ call.pc = "done" /\ call.res.kind # "Ok"
    /\ \/ GateRefuses(call)
       \/ call.source.kind = "Set"
       \/ call.source.kind = "Json" /\ DocParses(call.source.doc)
       \/ call.source.kind = "Url" /\ call.fetches = 0 /\ call.cache_reads = 1
       \/ call.source.kind = "Url" /\ call.fetches = 1 /\ ~BadResponse(call.resp)

\* C32: a call that fails because its key set could not be acquired returns
\* Jwks, Reqwest or Json and none of InvalidJwt, UnsupportedAlg, NoMatchingKey
\* and Validation; a call that fails because of its token returns one of these
\* four and never Jwks, Reqwest or Json.
C32_ErrorKindSeparation ==
    \A c \in Calls :
        LET call == calls[c]
        IN  /\ AcquisitionFailure(call) =>
                 call.res.kind \in AcquisitionKinds /\ call.res.kind \notin TokenKinds
            /\ TokenFailure(call) =>
                 call.res.kind \in TokenKinds /\ call.res.kind \notin AcquisitionKinds
            /\ call.pc = "done" /\ call.res.kind # "Ok" =>
                 AcquisitionFailure(call) \/ TokenFailure(call)

\* A call whose token is expired and carries the wrong issuer, but passes the
\* gates, ended with the Jwks error of a 404 answer.
C32_Witness ==
    \E c \in Calls :
        LET call == calls[c]
        IN  /\ AcquisitionFailure(call) /\ call.resp.status = 404
            /\ call.res.kind = "Jwks"
            /\ call.token.exp.v < now
            /\ ~IssuerHolds(call.token, call.opts)

\* The call is past the cache lookup of load_jwks on its URL.
PastLookup(call) == OnUrl(call) /\ call.pc \in {"fetch", "verify", "trial", "done"} /\ call.cache_reads = 1

\* The entry the lookup of the call found was fresh at the instant the call
\* took for now.
FoundFresh(call) == call.seen.present /\ call.seen.exp_at_ms > call.now_ms

\* C37: verification never feeds back into key-set acquisition.  Whether a
\* call on a URL hits the cache is decided by the entry under the URL and its
\* expiry alone; a call that hit sends no GET and writes no entry at any point
\* up to its end, whatever its token and however verification ends, and the
\* entry stays as the lookup found it; a call that fetched sends one GET and
\* the entry stays the one it stored.
C37_NoFeedback ==
    \A c \in Calls :
        LET call == calls[c]
            u == call.source.url
        IN  PastLookup(call) =>
              /\ call.fetches <= 1 /\ call.cache_writes <= call.fetches
              /\ FoundFresh(call) <=> call.fetches = 0
              /\ FoundFresh(call) =>
                    /\ call.cache_writes = 0 /\ call.resp = NoResponse
                    /\ call.keys = call.seen.jwks
                    /\ cache[u] = call.seen
              /\ call.cache_writes = 1 =>
                    /\ cache[u].present
                    /\ cache[u].jwks = KeysOfBody(call.resp.body)
                    /\ cache[u].jwks = call.keys

\* A call whose kid is that of no key of the fresh cached key set ended in a
\* Validation error without a GET, the entry being as the lookup found it.
C37_Witness ==
    \E c \in Calls :
        LET call == calls[c]
            u == call.source.url
        IN  /\ PastLookup(call) /\ FoundFresh(call) /\ call.pc = "done"
            /\ call.token.kid.some
            /\ \A i \in 1..Len(call.seen.jwks) : call.seen.jwks[i].kid # call.token.kid
            /\ call.res.kind = "Validation"
            /\ call.fetches = 0 /\ cache[u] = call.seen

\* Call d is a refresh of URL u that has stored its entry and took its now
\* after call c took its own.
StoredAndStartedAfter(d, c, u) ==
    /\ d # c /\ OnUrl(calls[d]) /\ calls[d].source.url = u
    /\ calls[d].cache_writes = 1
    /\ calls[d].now_ms > calls[c].now_ms

\* C36 as stated: with concurrent refreshes of one URL, the expiry stored for
\* the URL never moves backwards, and the store of a refresh leaves in place
\* the entry of a refresh that started after it.
C36_LastStartedWins ==
    [][/\ \A u \in Urls :
            cache[u].present =>
               cache'[u].present /\ cache'[u].exp_at_ms >= cache[u].exp_at_ms
       /\ \A c, d \in Calls :
            LET u == calls[c].source.url
            IN  RefreshStep(c) /\ StoredAndStartedAfter(d, c, u) => cache'[u] = cache[u]]_vars

\* C36: each refresh that receives its key set replaces the entry of
\* the URL with its own key set and the expiry computed from its own now and
\* its own response, whatever the entry holds at that moment and whichever
\* refresh started first; the entry is the one of the refresh that stored last.
C36_LastStoreWins ==
    [][\A c \in Calls :
          LET u == calls[c].source.url
              r == calls'[c].resp
          IN  RefreshStep(c) =>
                /\ cache'[u].exp_at_ms = calls[c].now_ms + ClaimedTtl(calls'[c]) * MsPerSec
                /\ cache'[u].jwks = KeysOfBody(r.body)
                /\ cache'[u].at_ms = now_epoch_ms
                /\ calls'[c].keys = cache'[u].jwks]_vars

\* Two refreshes of one URL have both stored; the one that started first
\* stored last, and the entry is its own, with another key set and an earlier
\* expiry than the entry of the refresh that started after it.
C36_Witness ==
    \E c, d \in Calls :
        LET u == calls[c].source.url
        IN  /\ OnUrl(calls[c]) /\ calls[c].cache_writes = 1
            /\ StoredAndStartedAfter(d, c, u)
            /\ calls[c].keys # calls[d].keys
            /\ cache[u].jwks = calls[c].keys
            /\ cache[u].exp_at_ms = ExpAtMs(calls[c], calls[c].resp)
            /\ cache[u].exp_at_ms < ExpAtMs(calls[d], calls[d].resp)

\* The sources of the calls whose end is looked at: one of each kind, key
\* sets with a key that does not decode and with an Ed25519 key of 16 bytes.
LiveSources ==
    {SrcSet(<<>>), SrcSet(<<K1NoN, K2B, K1A>>), SrcSet(<<K2B, K2Short>>), SrcJson(Garbage),
     SrcUrl("u1")}

LiveNext ==
    \/ \E c \in Calls :
          \/ \E token \in CacheTokens, source \in LiveSources, opts \in ConcOptions :
                verify_with_source(c, token, source, opts)
          \/ load_jwks(c)
          \/ \E resp \in ConcResponses : fetch_done(c, resp)
          \/ select_candidates(c)
          \/ trial_step(c)
          \/ trial_end(c)
          \/ Return(c)
    \/ Tick

\* Two callers at once.  A call that has started is polled to its end: each of
\* its steps (load_jwks, the outcome of its GET, an answer or the timeout after
\* 10 s, the candidates, a turn of the loop, the end of the loop), once it can
\* be taken, is taken.  Nothing obliges a caller to start a call or to pick up
\* a result.
SpecLive ==
    /\ Init /\ [][LiveNext]_vars
    /\ \A c \in Calls :
          WF_vars(\/ load_jwks(c)
                  \/ \E resp \in ConcResponses : fetch_done(c, resp)
                  \/ select_candidates(c)
                  \/ trial_step(c)
                  \/ trial_end(c))

\* The call is under way: past the gates of verify_with_source and not over.
UnderWay(call) == call.pc \in {"load", "fetch", "verify", "trial"}

\* The terminal outcomes: a VerifiedJwt or an error of one of the kinds.
TerminalKinds == {"Ok"} \cup TokenKinds \cup AcquisitionKinds

\* No position of the key set occurs twice in the sequence.
NoRepeat(seq) == \A i, j \in 1..Len(seq) : i # j => seq[i] # seq[j]

\* C33: every call ends, and ends in one terminal outcome, a VerifiedJwt or
\* one error, given that each GET is answered or times out: a call under way
\* reaches its result without waiting on the other call, no call ends any
\* other way, and the loop takes each candidate at most once.
C33_CallTerminates ==
    /\ [](\A c \in Calls :
            /\ calls[c].pc # "panicked"
            /\ calls[c].pc = "done" => calls[c].res.kind \in TerminalKinds
            /\ NoRepeat(calls[c].decoded) /\ calls[c].fetches <= 1)
    /\ \A c \in Calls : UnderWay(calls[c]) ~> calls[c].pc = "done"

=============================================================================
